---------------------------- MODULE Spec2Model ----------------------------
(***************************************************************************)
(* Model of the line-delimited JSON-RPC 2.0 connection engine of           *)
(* src/src/jsonrpc.c (jsonrpc_conn_new / _feed / _send_result /            *)
(* _send_error / _free) as driven through its public interface             *)
(* (src/include/jsonrpc/jsonrpc.h).                                        *)
(*                                                                         *)
(* Units.  A byte of the wire is one element of a sequence.  The bytes the *)
(* framer looks at ('\n', '\r') are modelled one for one.  A complete JSON *)
(* text is one opaque unit Doc(v) that carries the value v the JSON        *)
(* library parses it to, so lengths are counted in units and the three     *)
(* size constants keep their relations (MAX_BUFFER_BYTES =                 *)
(* 2 * MAX_MESSAGE_BYTES, INITIAL_BUFFER_CAP * 2^k = MAX_BUFFER_BYTES) at  *)
(* a scale TLC can enumerate.                                              *)
(*                                                                         *)
(* Memory.  Under Spec every allocation succeeds; the branches of the code *)
(* that are taken only when calloc or the JSON library returns nullptr are *)
(* those of SpecFault, where one call of a public operation runs with one  *)
(* allocation failing.                                                     *)
(***************************************************************************)
EXTENDS Naturals, Integers, Sequences, FiniteSets, TLC

\* ------------------------------------------------------------------------
\* Compile-time constants (src/src/jsonrpc.c:12-21), sizes scaled as above.
INITIAL_BUFFER_CAP == 2
MAX_MESSAGE_BYTES == 4
MAX_BUFFER_BYTES == 8

JSONRPC_ARENA_BYTES == MAX_MESSAGE_BYTES * 2

\* src/src/jsonrpc.c:6 and 34-41: the header of a block takes one alignment
\* unit, as in the source (8 bytes rounded up to alignof(max_align_t)).
ARENA_DEFAULT_ALIGNMENT == 2
JSONRPC_ALLOC_HEADER_BYTES == 2
JSONRPC_ALLOC_TAG == 1246908483
JSONRPC_ALLOC_ORIGIN_ARENA == 1
JSONRPC_ALLOC_ORIGIN_HEAP == 2

JSONRPC_ERR_PARSE == -32700
JSONRPC_ERR_INVALID_REQUEST == -32600
JSONRPC_ERR_METHOD_NOT_FOUND == -32601
JSONRPC_ERR_INVALID_PARAMS == -32602
JSONRPC_ERR_INTERNAL == -32603

\* Bound of the model: the number of interface calls made on a connection
\* after jsonrpc_conn_new.
MaxOps == 2

\* Bound of the model: the number of blocks the allocator shim hands out.
MaxBlocks == 3

\* Bound of the model: the number of calls of the engine in progress at a
\* time, one inside a callback of the other.
MaxDepth == 2

\* The clients that connect to the server.
MaxClients == 3

\* Bound of the model: the number of arena_alloc, arena_alloc_aligned and
\* arena_clear calls made on an arena.
MaxArenaOps == 3

\* ------------------------------------------------------------------------
\* Values.  Every value is a record whose field t names its type, so that
\* any two of them can be compared.
nullptr == [t |-> "nullptr"]
cstr(s) == [t |-> "cstr", s |-> s]

JNull == [t |-> "null"]
JNum(n) == [t |-> "num", n |-> n]
JStr(s) == [t |-> "str", s |-> s]
JBool(b) == [t |-> "bool", b |-> b]
JArr(a) == [t |-> "arr", a |-> a]
JObj(o) == [t |-> "obj", o |-> o]

\* The calls into the JSON library that jsonrpc.c makes.
json_value_get_type(v) == v.t
json_empty_object == [k \in {} |-> nullptr]
json_object_set_value(o, name, v) ==
    [k \in (DOMAIN o) \cup {name} |-> IF k = name THEN v ELSE o[k]]
json_object_has_value_non_null(o, name) == name \in DOMAIN o /\ o[name] # JNull

json_object_has_value(o, name) == name \in DOMAIN o
json_object_get_value(o, name) ==
    IF name \in DOMAIN o THEN o[name] ELSE nullptr
json_object_get_string_of_any_type(o, name) ==
    IF name \in DOMAIN o
    THEN (IF o[name].t = "str" THEN cstr(o[name].s) ELSE cstr(""))
    ELSE nullptr

json_object_get_string(o, name) ==
    IF name \in DOMAIN o /\ o[name].t = "str" THEN cstr(o[name].s) ELSE nullptr
json_value_deep_copy_shallow(v) ==
    IF v.t = "arr"
    THEN JArr([i \in 1..Len(v.a) |->
                  IF v.a[i].t \in {"arr", "obj"} THEN JNull ELSE v.a[i]])
    ELSE v

\* A copy is a value equal to the original, at every depth.
json_value_deep_copy(v) == v

\* Bytes of the wire.
NL == [b |-> "nl"]
CR == [b |-> "cr"]
SP == [b |-> "sp"]
XX == [b |-> "x"]
Doc(v) == [b |-> "json", v |-> v]

IsSpace(c) == c.b \in {"sp", "cr", "nl"}

RECURSIVE SkipWhitespaces(_)
SkipWhitespaces(s) ==
    IF s = <<>> THEN s
    ELSE IF IsSpace(Head(s)) THEN SkipWhitespaces(Tail(s))
    ELSE s

\* json_parse_string: leading white space is skipped, then one JSON text is
\* read.  Whether bytes that follow the text make the parse fail is the
\* library's choice (strict).
json_parse_string(line, strict) ==
    LET s == SkipWhitespaces(line)
    IN  IF s = <<>> THEN nullptr
        ELSE IF Head(s).b # "json" THEN nullptr
        ELSE IF strict /\ SkipWhitespaces(Tail(s)) # <<>> THEN nullptr
        ELSE Head(s).v

json_serialize_to_string(v) == <<Doc(v)>>

\* ------------------------------------------------------------------------
\* jsonrpc.c, leaves first.

jsonrpc_default_message(code) ==
    CASE code = JSONRPC_ERR_PARSE -> "Parse error"
      [] code = JSONRPC_ERR_INVALID_REQUEST -> "Invalid Request"
      [] code = JSONRPC_ERR_METHOD_NOT_FOUND -> "Method not found"
      [] code = JSONRPC_ERR_INVALID_PARAMS -> "Invalid params"
      [] code = JSONRPC_ERR_INTERNAL -> "Internal error"
      [] OTHER -> "Server error"

\* rpc_buffer_t: data holds the len bytes in use, cap is the allocated size.
EmptyBuffer == [data |-> <<>>, cap |-> 0]

GrowCap_to_desired(new_cap, desired) == desired

RECURSIVE GrowCap(_, _)
GrowCap(new_cap, desired) ==
    IF new_cap < desired THEN GrowCap(new_cap * 2, desired) ELSE new_cap

rpc_buffer_reserve(buffer, desired) ==
    IF desired <= buffer.cap THEN buffer
    ELSE [buffer EXCEPT !.cap =
             GrowCap(IF buffer.cap = 0 THEN INITIAL_BUFFER_CAP ELSE buffer.cap,
                     desired)]

rpc_buffer_append_one_over(buffer, data) ==
    IF Len(data) = 0 THEN [ok |-> TRUE, buffer |-> buffer]
    ELSE IF Len(buffer.data) + Len(data) > MAX_BUFFER_BYTES + 1
         THEN [ok |-> FALSE, buffer |-> buffer]
    ELSE [ok |-> TRUE,
          buffer |-> [rpc_buffer_reserve(buffer, Len(buffer.data) + Len(data))
                         EXCEPT !.data = buffer.data \o data]]

rpc_buffer_append_storing_what_fits(buffer, data) ==
    IF Len(data) = 0 THEN [ok |-> TRUE, buffer |-> buffer]
    ELSE IF Len(buffer.data) + Len(data) > MAX_BUFFER_BYTES
         THEN [ok |-> FALSE,
               buffer |-> [data |-> buffer.data \o
                                    SubSeq(data, 1, MAX_BUFFER_BYTES - Len(buffer.data)),
                           cap |-> MAX_BUFFER_BYTES]]
    ELSE [ok |-> TRUE,
          buffer |-> [rpc_buffer_reserve(buffer, Len(buffer.data) + Len(data))
                         EXCEPT !.data = buffer.data \o data]]

rpc_buffer_append(buffer, data) ==
    IF Len(data) = 0 THEN [ok |-> TRUE, buffer |-> buffer]
    ELSE IF Len(buffer.data) + Len(data) > MAX_BUFFER_BYTES
         THEN [ok |-> FALSE, buffer |-> buffer]
    ELSE [ok |-> TRUE,
          buffer |-> [rpc_buffer_reserve(buffer, Len(buffer.data) + Len(data))
                         EXCEPT !.data = buffer.data \o data]]

rpc_buffer_consume_one_more(buffer, count) ==
    IF count = 0 \/ Len(buffer.data) < count THEN buffer
    ELSE [buffer EXCEPT !.data = SubSeq(buffer.data, count + 2, Len(buffer.data))]

rpc_buffer_consume(buffer, count) ==
    IF count = 0 \/ Len(buffer.data) < count THEN buffer
    ELSE [buffer EXCEPT !.data = SubSeq(buffer.data, count + 1, Len(buffer.data))]

\* The same two functions with the outcome of calloc, which
\* rpc_buffer_reserve calls only when the buffer has to grow, as an input.
EvCalloc(ok) == [e |-> "calloc", ok |-> ok]

rpc_buffer_reserve_calloc(buffer, desired, calloc_ok) ==
    IF desired <= buffer.cap THEN [ok |-> TRUE, buffer |-> buffer, ev |-> <<>>]
    ELSE IF ~calloc_ok
    THEN [ok |-> FALSE, buffer |-> buffer, ev |-> <<EvCalloc(FALSE)>>]
    ELSE [ok |-> TRUE,
          buffer |-> [buffer EXCEPT !.cap =
                         GrowCap(IF buffer.cap = 0 THEN INITIAL_BUFFER_CAP
                                 ELSE buffer.cap, desired)],
          ev |-> <<EvCalloc(TRUE)>>]

rpc_buffer_append_calloc_in_front(buffer, data, calloc_ok) ==
    LET required == Len(buffer.data) + Len(data)
        r == rpc_buffer_reserve_calloc(buffer, required, calloc_ok)
    IN  IF Len(data) = 0 THEN [ok |-> TRUE, buffer |-> buffer, ev |-> <<>>]
        ELSE IF required > MAX_BUFFER_BYTES
        THEN [ok |-> FALSE, buffer |-> buffer, ev |-> <<>>]
        ELSE IF ~r.ok THEN [ok |-> FALSE, buffer |-> buffer, ev |-> r.ev]
        ELSE [ok |-> TRUE,
              buffer |-> [r.buffer EXCEPT !.data = data \o buffer.data],
              ev |-> r.ev]

rpc_buffer_append_calloc(buffer, data, calloc_ok) ==
    LET required == Len(buffer.data) + Len(data)
        r == rpc_buffer_reserve_calloc(buffer, required, calloc_ok)
    IN  IF Len(data) = 0 THEN [ok |-> TRUE, buffer |-> buffer, ev |-> <<>>]
        ELSE IF required > MAX_BUFFER_BYTES
        THEN [ok |-> FALSE, buffer |-> buffer, ev |-> <<>>]
        ELSE IF ~r.ok THEN [ok |-> FALSE, buffer |-> buffer, ev |-> r.ev]
        ELSE [ok |-> TRUE,
              buffer |-> [r.buffer EXCEPT !.data = buffer.data \o data],
              ev |-> r.ev]

\* Events the connection produces: calls of transport.send_raw and
\* transport.close, and invocations of the four callbacks.
EvSend(payload) == [e |-> "send_raw", data |-> payload]
EvClose == [e |-> "close"]
EvOpen == [e |-> "on_open"]
EvOnClose == [e |-> "on_close"]
EvRequest(method, params) == [e |-> "on_request", method |-> method, params |-> params]
EvNotification(method, params) ==
    [e |-> "on_notification", method |-> method, params |-> params]

jsonrpc_send_value_crlf(transport, value) ==
    IF ~transport.send_raw \/ value = nullptr THEN [sent |-> FALSE, ev |-> <<>>]
    ELSE [sent |-> TRUE,
          ev |-> <<EvSend(json_serialize_to_string(value) \o <<CR, NL>>)>>]

\* jsonrpc_send_value, lines 226-250: the text and one '\n' in one write.
jsonrpc_send_value(transport, value) ==
    IF ~transport.send_raw \/ value = nullptr THEN [sent |-> FALSE, ev |-> <<>>]
    ELSE [sent |-> TRUE,
          ev |-> <<EvSend(json_serialize_to_string(value) \o <<NL>>)>>]

jsonrpc_copy_id_always_null(id) == JNull

jsonrpc_copy_id(id) ==
    IF id = nullptr THEN JNull
    ELSE IF json_value_get_type(id) \notin {"str", "num", "null"} THEN JNull
    ELSE json_value_deep_copy(id)

jsonrpc_build_error_with_result(id, code, message) ==
    LET r1 == json_object_set_value(json_empty_object, "jsonrpc", JStr("2.0"))
        r2 == json_object_set_value(r1, "id", jsonrpc_copy_id(id))
        r3 == json_object_set_value(r2, "result", JNull)
        e1 == json_object_set_value(json_empty_object, "code", JNum(code))
        use_message == IF message # nullptr THEN message.s
                       ELSE jsonrpc_default_message(code)
        e2 == json_object_set_value(e1, "message", JStr(use_message))
    IN  JObj(json_object_set_value(r3, "error", JObj(e2)))

jsonrpc_build_error(id, code, message) ==
    LET r1 == json_object_set_value(json_empty_object, "jsonrpc", JStr("2.0"))
        r2 == json_object_set_value(r1, "id", jsonrpc_copy_id(id))
        e1 == json_object_set_value(json_empty_object, "code", JNum(code))
        use_message == IF message # nullptr THEN message.s
                       ELSE jsonrpc_default_message(code)
        e2 == json_object_set_value(e1, "message", JStr(use_message))
    IN  JObj(json_object_set_value(r2, "error", JObj(e2)))

jsonrpc_build_result(id, result) ==
    IF result = nullptr THEN nullptr
    ELSE LET r1 == json_object_set_value(json_empty_object, "jsonrpc", JStr("2.0"))
             r2 == json_object_set_value(r1, "id", jsonrpc_copy_id(id))
         IN  JObj(json_object_set_value(r2, "result", result))

jsonrpc_id_is_valid_any_type(id) == id # nullptr

jsonrpc_id_is_valid(id) ==
    IF id = nullptr THEN FALSE
    ELSE json_value_get_type(id) \in {"str", "num", "null"}

jsonrpc_params_is_valid_object_only(params) ==
    IF params = nullptr THEN TRUE
    ELSE json_value_get_type(params) = "obj"

jsonrpc_params_is_valid_always(params) == TRUE

jsonrpc_params_is_valid(params) ==
    IF params = nullptr THEN TRUE
    ELSE json_value_get_type(params) \in {"arr", "obj"}


\* ------------------------------------------------------------------------
\* The on_request callback.  It is the application's code: the handler of
\* src/src/main.c (ping, echo, add, anything else not handled), extended by
\* methods that leave the response descriptor in each of the other states
\* jsonrpc_process_object distinguishes.
Descriptor(handled, result, error_code, error_message) ==
    [handled |-> handled, result |-> result, error_code |-> error_code,
     error_message |-> error_message]

RECURSIVE SumNumbers(_)
SumNumbers(a) == IF a = <<>> THEN 0 ELSE Head(a).n + SumNumbers(Tail(a))

handle_add(params) ==
    IF params = nullptr \/ json_value_get_type(params) # "arr"
    THEN Descriptor(TRUE, nullptr, JSONRPC_ERR_INVALID_PARAMS,
                    cstr("Expected array params"))
    ELSE IF \E i \in 1..Len(params.a) : json_value_get_type(params.a[i]) # "num"
    THEN Descriptor(TRUE, nullptr, JSONRPC_ERR_INVALID_PARAMS,
                    cstr("All params must be numbers"))
    ELSE Descriptor(TRUE, JNum(SumNumbers(params.a)), 0, nullptr)

my_on_request(method, params) ==
    CASE method.s = "ping" -> Descriptor(TRUE, JStr("pong"), 0, nullptr)
      [] method.s = "echo" ->
            IF params = nullptr
            THEN Descriptor(TRUE, nullptr, JSONRPC_ERR_INVALID_PARAMS,
                            cstr("Missing params"))
            ELSE Descriptor(TRUE, json_value_deep_copy(params), 0, nullptr)
      [] method.s = "add" -> handle_add(params)
      [] OTHER -> Descriptor(FALSE, nullptr, 0, nullptr)

on_request(method, params) ==
    CASE method.s = "fail" -> Descriptor(TRUE, nullptr, 42, cstr("boom"))
      [] method.s = "deflt" -> Descriptor(TRUE, nullptr, JSONRPC_ERR_INVALID_PARAMS, nullptr)
      [] method.s = "both" -> Descriptor(TRUE, JStr("partial"), 7, nullptr)
      [] method.s = "nores" -> Descriptor(TRUE, nullptr, 0, nullptr)
      [] method.s = "leak" -> Descriptor(FALSE, JStr("unused"), 0, nullptr)
      [] OTHER -> my_on_request(method, params)

reply_of_descriptor_result_first(id, response) ==
    IF ~response.handled
    THEN jsonrpc_build_error(id, JSONRPC_ERR_METHOD_NOT_FOUND, nullptr)
    ELSE IF response.result # nullptr
    THEN jsonrpc_build_result(id, response.result)
    ELSE IF response.error_code # 0
    THEN jsonrpc_build_error(id, response.error_code, response.error_message)
    ELSE jsonrpc_build_error(id, JSONRPC_ERR_INTERNAL,
                             cstr("Handler returned no result"))

\* jsonrpc_process_object, lines 427-451: the reply chosen from what the
\* handler left in the descriptor.
reply_of_descriptor(id, response) ==
    IF ~response.handled
    THEN jsonrpc_build_error(id, JSONRPC_ERR_METHOD_NOT_FOUND, nullptr)
    ELSE IF response.error_code # 0
    THEN jsonrpc_build_error(id, response.error_code, response.error_message)
    ELSE IF response.result = nullptr
    THEN jsonrpc_build_error(id, JSONRPC_ERR_INTERNAL,
                             cstr("Handler returned no result"))
    ELSE jsonrpc_build_result(id, response.result)

Reply(resp, ev) == [resp |-> resp, ev |-> ev]

\* jsonrpc_process_object: the reply (nullptr for none) and the callbacks
\* invoked on the way.
jsonrpc_process_object(callbacks, value) ==
    IF json_value_get_type(value) # "obj"
    THEN Reply(jsonrpc_build_error(nullptr, JSONRPC_ERR_INVALID_REQUEST, nullptr), <<>>)
    ELSE
    LET obj == value.o
        version == json_object_get_string(obj, "jsonrpc")
        method == json_object_get_string(obj, "method")
        has_id == json_object_has_value(obj, "id")
        id == IF has_id THEN json_object_get_value(obj, "id") ELSE nullptr
        params == json_object_get_value(obj, "params")
    IN  IF version = nullptr \/ version.s # "2.0"
        THEN Reply(jsonrpc_build_error(nullptr, JSONRPC_ERR_INVALID_REQUEST, nullptr), <<>>)
        ELSE IF method = nullptr
        THEN Reply(jsonrpc_build_error(nullptr, JSONRPC_ERR_INVALID_REQUEST, nullptr), <<>>)
        ELSE IF has_id /\ ~jsonrpc_id_is_valid(id)
        THEN Reply(jsonrpc_build_error(nullptr, JSONRPC_ERR_INVALID_REQUEST, nullptr), <<>>)
        ELSE IF ~jsonrpc_params_is_valid(params)
        THEN IF ~has_id THEN Reply(nullptr, <<>>)
             ELSE Reply(jsonrpc_build_error(id, JSONRPC_ERR_INVALID_PARAMS, nullptr), <<>>)
        ELSE IF ~has_id
        THEN Reply(nullptr,
                   IF callbacks.on_notification
                   THEN <<EvNotification(method, params)>> ELSE <<>>)
        ELSE IF ~callbacks.on_request
        THEN Reply(jsonrpc_build_error(id, JSONRPC_ERR_METHOD_NOT_FOUND, nullptr), <<>>)
        ELSE Reply(reply_of_descriptor(id, on_request(method, params)),
                   <<EvRequest(method, params)>>)

\* jsonrpc_process_value, lines 476-488: the elements of a batch in order.
RECURSIVE process_batch(_, _, _, _)
process_batch(callbacks, array, responses, ev) ==
    IF array = <<>> THEN Reply(responses, ev)
    ELSE LET r == jsonrpc_process_object(callbacks, Head(array))
         IN  process_batch(callbacks, Tail(array),
                           IF r.resp = nullptr THEN responses
                           ELSE Append(responses, r.resp),
                           ev \o r.ev)

\* jsonrpc_process_value, lines 490-495: no array when nothing was appended.
batch_response_always_array(responses) == JArr(responses)

batch_response_unwrapping_single(responses) ==
    IF Len(responses) = 0 THEN nullptr
    ELSE IF Len(responses) = 1 THEN responses[1]
    ELSE JArr(responses)

batch_response(responses) ==
    IF Len(responses) = 0 THEN nullptr ELSE JArr(responses)

jsonrpc_process_value(callbacks, value) ==
    IF value = nullptr
    THEN Reply(jsonrpc_build_error(nullptr, JSONRPC_ERR_INVALID_REQUEST, nullptr), <<>>)
    ELSE IF json_value_get_type(value) = "arr"
    THEN IF Len(value.a) = 0
         THEN Reply(jsonrpc_build_error(nullptr, JSONRPC_ERR_INVALID_REQUEST, nullptr), <<>>)
         ELSE LET b == process_batch(callbacks, value.a, <<>>, <<>>)
              IN  Reply(batch_response(b.resp), b.ev)
    ELSE jsonrpc_process_object(callbacks, value)

\* jsonrpc_conn_send_error and jsonrpc_conn_send_result on a connection
\* that is not nullptr: whether the reply was sent, and the events.
jsonrpc_conn_send_error(transport, id, code, message) ==
    jsonrpc_send_value(transport, jsonrpc_build_error(id, code, message))

jsonrpc_conn_send_result(transport, id, result) ==
    IF result = nullptr THEN [sent |-> FALSE, ev |-> <<>>]
    ELSE jsonrpc_send_value(transport, jsonrpc_build_result(id, result))

\* transport.close, when the transport provides it.
call_close_emitting_on_close(transport) ==
    IF transport.close THEN <<EvClose, EvOnClose>> ELSE <<>>

call_close_twice(transport) ==
    IF transport.close THEN <<EvClose, EvClose>> ELSE <<>>

call_close(transport) == IF transport.close THEN <<EvClose>> ELSE <<>>


\* jsonrpc_conn_feed, lines 568-658: the framing loop over the buffer.
FeedResult(inbound, ev, exit) == [inbound |-> inbound, ev |-> ev, exit |-> exit]

\* line 569: the 1-based position of the first '\n' of the buffer, 0 for none.
memchr_newline_last(data) ==
    IF \E i \in 1..Len(data) : data[i] = NL
    THEN CHOOSE i \in 1..Len(data) :
             data[i] = NL /\ \A j \in (i + 1)..Len(data) : data[j] # NL
    ELSE 0

memchr_newline(data) ==
    IF \E i \in 1..Len(data) : data[i] = NL
    THEN CHOOSE i \in 1..Len(data) :
             data[i] = NL /\ \A j \in 1..(i - 1) : data[j] # NL
    ELSE 0

strip_cr_never(data, newline_index) == newline_index

\* lines 576-581: the length of the line once one '\r' before '\n' is dropped.
strip_cr(data, newline_index) ==
    IF newline_index > 0 /\ data[newline_index] = CR
    THEN newline_index - 1 ELSE newline_index

line_is_empty_never(line_len) == FALSE

\* line 583
line_is_empty(line_len) == line_len = 0

line_too_large_at_limit(line_len) == line_len >= MAX_MESSAGE_BYTES

\* line 588
line_too_large(line_len) == line_len > MAX_MESSAGE_BYTES

send_failure_closes_after_any_reply(sent, transport) == transport.close

send_failure_closes_never(sent, transport) == FALSE

\* lines 629 and 641: a reply that was not sent, on a transport with close.
send_failure_closes(sent, transport) == ~sent /\ transport.close

RECURSIVE feed_loop(_, _, _, _, _)
feed_loop(transport, callbacks, strict, inbound, ev) ==
    LET newline == memchr_newline(inbound.data)
        newline_index == newline - 1
        consume_len == newline_index + 1
        line_len == strip_cr(inbound.data, newline_index)
    IN  IF newline = 0 THEN FeedResult(inbound, ev, "drained")
        ELSE IF line_is_empty(line_len)
        THEN feed_loop(transport, callbacks, strict,
                       rpc_buffer_consume(inbound, consume_len), ev)
        ELSE IF line_too_large(line_len)
        THEN LET s == jsonrpc_conn_send_error(transport, nullptr,
                          JSONRPC_ERR_INVALID_REQUEST, cstr("Request too large"))
             IN  FeedResult(inbound, ev \o s.ev \o call_close(transport), "too_large")
        ELSE
        LET line == SubSeq(inbound.data, 1, line_len)
            rest == rpc_buffer_consume(inbound, consume_len)
            request == json_parse_string(line, strict)
        IN  IF request = nullptr
            THEN LET s == jsonrpc_conn_send_error(transport, nullptr,
                              JSONRPC_ERR_PARSE, nullptr)
                 IN  IF send_failure_closes(s.sent, transport)
                     THEN FeedResult(rest, ev \o s.ev \o call_close(transport),
                                     "send_failed")
                     ELSE feed_loop(transport, callbacks, strict, rest, ev \o s.ev)
            ELSE
            LET p == jsonrpc_process_value(callbacks, request)
                s == IF p.resp # nullptr THEN jsonrpc_send_value(transport, p.resp)
                     ELSE [sent |-> TRUE, ev |-> <<>>]
            IN  IF send_failure_closes(s.sent, transport)
                THEN FeedResult(rest, ev \o p.ev \o s.ev \o call_close(transport),
                                "send_failed")
                ELSE feed_loop(transport, callbacks, strict, rest,
                               ev \o p.ev \o s.ev)

jsonrpc_conn_feed_close_when_unsent(closed, transport, callbacks, strict, inbound, data) ==
    IF Len(data) = 0 \/ closed THEN FeedResult(inbound, <<>>, "ignored")
    ELSE LET a == rpc_buffer_append(inbound, data)
         IN  IF ~a.ok
             THEN LET s == jsonrpc_conn_send_error(transport, nullptr,
                               JSONRPC_ERR_INVALID_REQUEST, cstr("Request too large"))
                  IN  FeedResult(a.buffer,
                                 s.ev \o (IF s.sent THEN <<>> ELSE call_close(transport)),
                                 "append_failed")
             ELSE feed_loop(transport, callbacks, strict, a.buffer, <<>>)

\* jsonrpc_conn_feed on a connection that is not nullptr.
jsonrpc_conn_feed(closed, transport, callbacks, strict, inbound, data) ==
    IF Len(data) = 0 \/ closed THEN FeedResult(inbound, <<>>, "ignored")
    ELSE LET a == rpc_buffer_append(inbound, data)
         IN  IF ~a.ok
             THEN LET s == jsonrpc_conn_send_error(transport, nullptr,
                               JSONRPC_ERR_INVALID_REQUEST, cstr("Request too large"))
                  IN  FeedResult(a.buffer, s.ev \o call_close(transport),
                                 "append_failed")
             ELSE feed_loop(transport, callbacks, strict, a.buffer, <<>>)

\* jsonrpc_conn_new, lines 520-522, and jsonrpc_conn_free, lines 532-534.
conn_new_events_silent(callbacks) == <<>>

conn_new_events(callbacks) == IF callbacks.on_open THEN <<EvOpen>> ELSE <<>>
conn_free_events(closed, callbacks) ==
    IF ~closed /\ callbacks.on_close THEN <<EvOnClose>> ELSE <<>>

\* ------------------------------------------------------------------------
\* Inputs.
\* ------------------------------------------------------------------------
\* The same code with one allocation failing.  A fault names the call that
\* returns nullptr or JSONFailure (at) and the batch element being processed
\* when it does (elem; 1 for a line that is no batch).
NoFault == [at |-> "none", elem |-> 1]
FailAt(fault, i) == IF fault.elem = i THEN fault.at ELSE "none"

\* One json_value_free(v) call: v and what the code holds it as.
Free(what, v) == [what |-> what, v |-> v]
Built(response, frees) == [response |-> response, frees |-> frees]

\* jsonrpc_build_error with its failure branches.
jsonrpc_build_error_mem(id, code, message, fail) ==
    LET r0 == json_empty_object
        r1 == json_object_set_value(r0, "jsonrpc", JStr("2.0"))
        r2 == json_object_set_value(r1, "id", jsonrpc_copy_id(id))
        e0 == json_empty_object
    IN  CASE fail = "init_object" -> Built(nullptr, <<>>)
          [] fail = "set_jsonrpc" -> Built(nullptr, <<Free("response", JObj(r0))>>)
          [] fail = "copy_id" -> Built(nullptr, <<Free("response", JObj(r1))>>)
          [] fail = "set_id" ->
                Built(nullptr, <<Free("id_copy", jsonrpc_copy_id(id)),
                                 Free("response", JObj(r1))>>)
          [] fail = "init_error" -> Built(nullptr, <<Free("response", JObj(r2))>>)
          [] fail \in {"set_code", "set_message", "set_error"} ->
                Built(nullptr, <<Free("error_value", JObj(e0)),
                                 Free("response", JObj(r2))>>)
          [] OTHER -> Built(jsonrpc_build_error(id, code, message), <<>>)

\* jsonrpc_build_result with its failure branches: each of them frees the
\* result it was given.
jsonrpc_build_result_mem(id, result, fail) ==
    LET r0 == json_empty_object
        r1 == json_object_set_value(r0, "jsonrpc", JStr("2.0"))
        r2 == json_object_set_value(r1, "id", jsonrpc_copy_id(id))
    IN  IF result = nullptr THEN Built(nullptr, <<>>)
        ELSE CASE fail = "init_object" -> Built(nullptr, <<Free("result", result)>>)
               [] fail = "set_jsonrpc" ->
                     Built(nullptr, <<Free("result", result),
                                      Free("response", JObj(r0))>>)
               [] fail = "copy_id" ->
                     Built(nullptr, <<Free("result", result),
                                      Free("response", JObj(r1))>>)
               [] fail = "set_id" ->
                     Built(nullptr, <<Free("id_copy", jsonrpc_copy_id(id)),
                                      Free("result", result),
                                      Free("response", JObj(r1))>>)
               [] fail = "set_result" ->
                     Built(nullptr, <<Free("result", result),
                                      Free("response", JObj(r2))>>)
               [] OTHER -> Built(jsonrpc_build_result(id, result), <<>>)

release_result_leaking(result) == <<>>

\* jsonrpc_process_object, lines 428-430 and 435-437: a result the reply
\* will not carry is freed.
release_result(result) ==
    IF result # nullptr THEN <<Free("result", result)>> ELSE <<>>

\* jsonrpc_process_object, lines 427-451.
released_then_built(result, b) ==
    Built(b.response, release_result(result) \o b.frees)

reply_of_descriptor_mem(id, response, fail) ==
    IF ~response.handled
    THEN released_then_built(
             response.result,
             jsonrpc_build_error_mem(id, JSONRPC_ERR_METHOD_NOT_FOUND, nullptr, fail))
    ELSE IF response.error_code # 0
    THEN released_then_built(
             response.result,
             jsonrpc_build_error_mem(id, response.error_code,
                                     response.error_message, fail))
    ELSE IF response.result = nullptr
    THEN jsonrpc_build_error_mem(id, JSONRPC_ERR_INTERNAL,
                                 cstr("Handler returned no result"), fail)
    ELSE jsonrpc_build_result_mem(id, response.result, fail)

MemReply(resp, ev, frees) == [resp |-> resp, ev |-> ev, frees |-> frees]

\* jsonrpc_process_object: the checks and the callbacks are those of
\* jsonrpc_process_object above; the reply is built with the fault.
\* p: what jsonrpc_process_object does with the value when nothing fails.
\* b: the reply as built with the fault.
mem_reply_of(b, ev) == MemReply(b.response, ev, b.frees)

mem_reply_built(b, resp, ev) ==
    MemReply(IF b.response = nullptr THEN nullptr ELSE resp, ev, b.frees)

process_object_reply_mem(p, value, fail) ==
    IF \A i \in 1..Len(p.ev) : p.ev[i].e # "on_request"
    THEN IF p.resp = nullptr THEN MemReply(nullptr, p.ev, <<>>)
         ELSE mem_reply_built(
                  jsonrpc_build_error_mem(nullptr, JSONRPC_ERR_INVALID_REQUEST,
                                          nullptr, fail),
                  p.resp, p.ev)
    ELSE mem_reply_of(
             reply_of_descriptor_mem(json_object_get_value(value.o, "id"),
                                     on_request(p.ev[1].method, p.ev[1].params),
                                     fail),
             p.ev)

jsonrpc_process_object_mem(callbacks, value, fail) ==
    process_object_reply_mem(jsonrpc_process_object(callbacks, value), value, fail)

\* jsonrpc_process_value, lines 476-495, element i onwards.
\* r: the reply to element i.
RECURSIVE process_batch_mem(_, _, _, _, _, _, _)
RECURSIVE process_batch_element_mem(_, _, _, _, _, _, _, _)
process_batch_element_mem(callbacks, array, i, responses, ev, frees, fault, r) ==
    IF r.resp = nullptr
    THEN process_batch_mem(callbacks, array, i + 1, responses,
                           ev \o r.ev, frees \o r.frees, fault)
    ELSE IF FailAt(fault, i) = "append"
    THEN MemReply(jsonrpc_build_error(nullptr, JSONRPC_ERR_INTERNAL, nullptr),
                  ev \o r.ev,
                  frees \o r.frees \o
                      <<Free("response", r.resp),
                        Free("response_array", JArr(responses))>>)
    ELSE process_batch_mem(callbacks, array, i + 1,
                           Append(responses, r.resp), ev \o r.ev,
                           frees \o r.frees, fault)

process_batch_mem(callbacks, array, i, responses, ev, frees, fault) ==
    IF i > Len(array)
    THEN IF Len(responses) = 0
         THEN MemReply(nullptr, ev, frees \o <<Free("response_array", JArr(<<>>))>>)
         ELSE MemReply(JArr(responses), ev, frees)
    ELSE process_batch_element_mem(
             callbacks, array, i, responses, ev, frees, fault,
             jsonrpc_process_object_mem(callbacks, array[i], FailAt(fault, i)))

jsonrpc_process_value_mem(callbacks, value, fault) ==
    IF json_value_get_type(value) = "arr"
    THEN IF Len(value.a) = 0
         THEN mem_reply_of(
                  jsonrpc_build_error_mem(nullptr, JSONRPC_ERR_INVALID_REQUEST,
                                          nullptr, fault.at),
                  <<>>)
         ELSE IF fault.at = "init_array"
         THEN MemReply(jsonrpc_build_error(nullptr, JSONRPC_ERR_INTERNAL, nullptr),
                       <<>>, <<>>)
         ELSE process_batch_mem(callbacks, value.a, 1, <<>>, <<>>, <<>>, fault)
    ELSE jsonrpc_process_object_mem(callbacks, value, FailAt(fault, 1))

\* jsonrpc_send_value with its failure branches.  transmitted: send_raw was
\* called and the transport put the bytes on the wire; send_raw returns
\* nothing, so a transport that fails (src/src/server.c:67-96 returns
\* early, or uv_write fails) cannot say so.
jsonrpc_send_value_mem(transport, value, fail) ==
    IF ~transport.send_raw \/ value = nullptr
    THEN [sent |-> FALSE, ev |-> <<>>, transmitted |-> FALSE]
    ELSE IF fail \in {"serialize", "payload"}
    THEN [sent |-> FALSE, ev |-> <<>>, transmitted |-> FALSE]
    ELSE [sent |-> TRUE,
          ev |-> <<EvSend(json_serialize_to_string(value) \o <<NL>>)>>,
          transmitted |-> fail # "transport"]

SendOutcome(sent, ev, transmitted, frees) ==
    [sent |-> sent, ev |-> ev, transmitted |-> transmitted, frees |-> frees]

\* jsonrpc_conn_send_error on a connection that is not nullptr.
jsonrpc_conn_send_error_mem(transport, id, code, message, fail) ==
    LET b == jsonrpc_build_error_mem(id, code, message, fail)
    IN  IF b.response = nullptr THEN SendOutcome(FALSE, <<>>, FALSE, b.frees)
        ELSE LET s == jsonrpc_send_value_mem(transport, b.response, fail)
             IN  SendOutcome(s.sent, s.ev, s.transmitted,
                             b.frees \o <<Free("response", b.response)>>)

jsonrpc_conn_send_result_mem_keeping_unsent(conn_null, transport, id, result, fail) ==
    IF conn_null \/ result = nullptr
    THEN SendOutcome(FALSE, <<>>, FALSE,
                     IF result # nullptr THEN <<Free("result", result)>> ELSE <<>>)
    ELSE LET b == jsonrpc_build_result_mem(id, result, fail)
         IN  IF b.response = nullptr THEN SendOutcome(FALSE, <<>>, FALSE, b.frees)
             ELSE LET s == jsonrpc_send_value_mem(transport, b.response, fail)
                  IN  SendOutcome(s.sent, s.ev, s.transmitted,
                                  IF s.sent THEN b.frees \o <<Free("response", b.response)>>
                                  ELSE b.frees)

\* jsonrpc_conn_send_result; conn_null: the connection given is nullptr.
jsonrpc_conn_send_result_mem(conn_null, transport, id, result, fail) ==
    IF conn_null \/ result = nullptr
    THEN SendOutcome(FALSE, <<>>, FALSE,
                     IF result # nullptr THEN <<Free("result", result)>> ELSE <<>>)
    ELSE LET b == jsonrpc_build_result_mem(id, result, fail)
         IN  IF b.response = nullptr THEN SendOutcome(FALSE, <<>>, FALSE, b.frees)
             ELSE LET s == jsonrpc_send_value_mem(transport, b.response, fail)
                  IN  SendOutcome(s.sent, s.ev, s.transmitted,
                                  b.frees \o <<Free("response", b.response)>>)

FaultResult(ev, exit, frees) == [ev |-> ev, exit |-> exit, frees |-> frees]

\* jsonrpc_conn_feed, lines 637-658; p: what jsonrpc_process_value gave,
\* s: what the send of its reply gave.
feed_line_cleanup(transport, request, p, s) ==
    LET cleanup == (IF p.resp # nullptr THEN <<Free("response", p.resp)>>
                    ELSE <<>>) \o <<Free("request", request)>>
    IN  IF ~s.sent /\ transport.close
        THEN FaultResult(p.ev \o s.ev \o call_close(transport), "send_failed",
                         p.frees \o cleanup)
        ELSE FaultResult(p.ev \o s.ev, "drained", p.frees \o cleanup)

feed_line_sent(transport, request, p, fail) ==
    feed_line_cleanup(transport, request, p,
                      IF p.resp # nullptr
                      THEN jsonrpc_send_value_mem(transport, p.resp, fail)
                      ELSE [sent |-> TRUE, ev |-> <<>>, transmitted |-> FALSE])

\* jsonrpc_conn_feed given one line, a JSON text, on an empty buffer.
jsonrpc_conn_feed_mem(transport, callbacks, request, fault) ==
    IF fault.at = "reserve"
    THEN LET s == jsonrpc_conn_send_error_mem(transport, nullptr,
                      JSONRPC_ERR_INVALID_REQUEST, cstr("Request too large"), "none")
         IN  FaultResult(s.ev \o call_close(transport), "append_failed", s.frees)
    ELSE IF fault.at = "line"
    THEN LET s == jsonrpc_conn_send_error_mem(transport, nullptr,
                      JSONRPC_ERR_INTERNAL, nullptr, "none")
         IN  IF ~s.sent /\ transport.close
             THEN FaultResult(s.ev \o call_close(transport), "send_failed", s.frees)
             ELSE FaultResult(s.ev, "drained", s.frees)
    ELSE feed_line_sent(transport, request,
                        jsonrpc_process_value_mem(callbacks, request, fault),
                        fault.at)

\* ------------------------------------------------------------------------
\* The allocator shim (jsonrpc_arena_malloc / jsonrpc_arena_free) and the
\* arena under it (src/src/arena.c).  A pointer the shim returns is the
\* index of its block in mem.blocks; 0 is nullptr.  real is where the bytes
\* of a block really are, tag and origin are what its header holds.

\* struct Arena: region is the address of the region (0 is nullptr), index
\* and size count bytes of it.  bytes is what the region holds, byte by
\* byte: 0 for a byte that is zero, 1 for a byte that was written since.
NoArena == [region |-> 0, index |-> 0, size |-> 0, bytes |-> <<>>]

\* arena_create(size); region is what calloc(1, size) returned: nullptr, or
\* the address of size zero bytes aligned for any type.
arena_create(size, region) ==
    IF size = 0 \/ region = 0 THEN NoArena
    ELSE [region |-> region, index |-> 0, size |-> size,
          bytes |-> [i \in 1..size |-> 0]]

\* The address calloc gives the region of a connection's arena: the engine
\* asks the arena for the default alignment only, so any address aligned
\* for any type behaves as this one.
ConnRegion == ARENA_DEFAULT_ALIGNMENT

NoMemory == [arena |-> NoArena, g_current_arena |-> FALSE, blocks |-> <<>>,
             sys_free |-> <<>>]

\* The pointer arena_alloc_aligned returns (0 is nullptr) and the arena it
\* leaves.
ArenaAllocation(ptr, arena) == [ok |-> ptr # 0, ptr |-> ptr, arena |-> arena]

arena_alloc_padded(padded, size) ==
    IF size > padded.size - padded.index THEN ArenaAllocation(0, padded)
    ELSE ArenaAllocation(padded.region + padded.index,
                         [padded EXCEPT !.index = padded.index + size])

arena_alloc_aligned_unpadded(arena, size, alignment) ==
    IF size = 0 THEN ArenaAllocation(0, arena)
    ELSE IF arena.region = 0 THEN ArenaAllocation(0, arena)
    ELSE IF arena.index > arena.size THEN ArenaAllocation(0, arena)
    ELSE arena_alloc_padded(arena, size)

arena_alloc_aligned(arena, size, alignment) ==
    IF size = 0 THEN ArenaAllocation(0, arena)
    ELSE IF arena.region = 0 THEN ArenaAllocation(0, arena)
    ELSE IF arena.index > arena.size THEN ArenaAllocation(0, arena)
    ELSE LET misalignment == IF alignment # 0
                             THEN (arena.region + arena.index) % alignment ELSE 0
             padding == IF misalignment # 0 THEN alignment - misalignment ELSE 0
         IN  IF padding > arena.size - arena.index
             THEN ArenaAllocation(0, arena)
             ELSE arena_alloc_padded([arena EXCEPT !.index = arena.index + padding],
                                     size)

arena_alloc(arena, size) == arena_alloc_aligned(arena, size, ARENA_DEFAULT_ALIGNMENT)
arena_clear(arena) == [arena EXCEPT !.index = 0]

\* A store to the n bytes at ptr, inside the region of the arena.
arena_written(arena, ptr, n) ==
    [arena EXCEPT !.bytes = [i \in 1..arena.size |->
        IF i - 1 >= ptr - arena.region /\ i - 1 < ptr - arena.region + n THEN 1
        ELSE arena.bytes[i]]]

Block(real, origin) ==
    [real |-> real, tag |-> JSONRPC_ALLOC_TAG, origin |-> origin, live |-> TRUE]
\* The bytes before a pointer that the shim did not return: another tag.
ForeignPointer == -1
ForeignHeader == [real |-> "foreign", tag |-> 0, origin |-> JSONRPC_ALLOC_ORIGIN_HEAP,
                  live |-> TRUE]
HeaderOf(m, ptr) == IF ptr = ForeignPointer THEN ForeignHeader ELSE m.blocks[ptr]

jsonrpc_arena_malloc_no_fallback(m, size, calloc_ok) ==
    IF size = 0 THEN [ptr |-> 0, mem |-> m, ev |-> <<>>]
    ELSE LET total_size == size + JSONRPC_ALLOC_HEADER_BYTES
             a == IF m.g_current_arena THEN arena_alloc(m.arena, total_size)
                  ELSE ArenaAllocation(0, m.arena)
             m1 == [m EXCEPT !.arena = a.arena]
         IN  IF a.ok
             THEN [ptr |-> Len(m.blocks) + 1,
                   mem |-> [m EXCEPT
                       !.arena = arena_written(a.arena, a.ptr, JSONRPC_ALLOC_HEADER_BYTES),
                       !.blocks = Append(m.blocks,
                                         Block("arena", JSONRPC_ALLOC_ORIGIN_ARENA))],
                   ev |-> <<>>]
             ELSE IF calloc_ok /\ ~m.g_current_arena
             THEN [ptr |-> Len(m.blocks) + 1,
                   mem |-> [m1 EXCEPT !.blocks =
                               Append(m.blocks, Block("heap", JSONRPC_ALLOC_ORIGIN_HEAP))],
                   ev |-> <<EvCalloc(TRUE)>>]
             ELSE [ptr |-> 0, mem |-> m1,
                   ev |-> IF m.g_current_arena THEN <<>> ELSE <<EvCalloc(FALSE)>>]

\* jsonrpc_arena_malloc(size); calloc_ok: calloc has memory to give.  ev
\* holds the calloc call, when the function makes it.
jsonrpc_arena_malloc(m, size, calloc_ok) ==
    IF size = 0 THEN [ptr |-> 0, mem |-> m, ev |-> <<>>]
    ELSE LET total_size == size + JSONRPC_ALLOC_HEADER_BYTES
             a == IF m.g_current_arena THEN arena_alloc(m.arena, total_size)
                  ELSE ArenaAllocation(0, m.arena)
             m1 == [m EXCEPT !.arena = a.arena]
         IN  IF a.ok
             THEN [ptr |-> Len(m.blocks) + 1,
                   mem |-> [m EXCEPT
                       !.arena = arena_written(a.arena, a.ptr, JSONRPC_ALLOC_HEADER_BYTES),
                       !.blocks = Append(m.blocks,
                                         Block("arena", JSONRPC_ALLOC_ORIGIN_ARENA))],
                   ev |-> <<>>]
             ELSE IF calloc_ok
             THEN [ptr |-> Len(m.blocks) + 1,
                   mem |-> [m1 EXCEPT !.blocks =
                               Append(m.blocks, Block("heap", JSONRPC_ALLOC_ORIGIN_HEAP))],
                   ev |-> <<EvCalloc(TRUE)>>]
             ELSE [ptr |-> 0, mem |-> m1, ev |-> <<EvCalloc(FALSE)>>]

jsonrpc_arena_free_any_origin(m, ptr) ==
    IF ptr = 0 THEN m
    ELSE IF HeaderOf(m, ptr).tag # JSONRPC_ALLOC_TAG THEN m
    ELSE [m EXCEPT !.sys_free = Append(m.sys_free, ptr),
                   !.blocks[ptr].live = FALSE]

\* jsonrpc_arena_free(ptr): free(raw) is a system free call given the block.
jsonrpc_arena_free(m, ptr) ==
    IF ptr = 0 THEN m
    ELSE IF HeaderOf(m, ptr).tag # JSONRPC_ALLOC_TAG THEN m
    ELSE IF HeaderOf(m, ptr).origin = JSONRPC_ALLOC_ORIGIN_HEAP
    THEN [m EXCEPT !.sys_free = Append(m.sys_free, ptr),
                   !.blocks[ptr].live = FALSE]
    ELSE m

\* The blocks of the arena are gone once the arena is cleared or destroyed.
DropArenaBlocks(blocks) ==
    [i \in 1..Len(blocks) |->
        IF blocks[i].real = "arena" THEN [blocks[i] EXCEPT !.live = FALSE]
        ELSE blocks[i]]

\* jsonrpc_arena_scope_begin(conn->arena) and jsonrpc_arena_scope_end, for a
\* scope that changed the binding.
jsonrpc_arena_scope_begin(m) ==
    IF m.arena.region = 0 \/ m.g_current_arena THEN m
    ELSE [m EXCEPT !.g_current_arena = TRUE]
jsonrpc_arena_scope_end(m) ==
    [m EXCEPT !.arena = arena_clear(m.arena), !.g_current_arena = FALSE,
              !.blocks = DropArenaBlocks(m.blocks)]

\* jsonrpc_conn_free, lines 538-544: the binding is dropped if it is this
\* connection's arena, and the arena is destroyed.
conn_free_memory(m) ==
    [m EXCEPT !.arena = NoArena, !.g_current_arena = FALSE,
              !.blocks = DropArenaBlocks(m.blocks)]

ABSENT == [t |-> "absent"]
Member(o, name, v) == IF v = ABSENT THEN o ELSE json_object_set_value(o, name, v)
Envelope(j, m, i, p) ==
    JObj(Member(Member(Member(Member(json_empty_object, "jsonrpc", j),
                              "method", m), "id", i), "params", p))

Versions == {ABSENT, JStr("2.0"), JStr("1.0")}
Methods == {ABSENT, JNum(5)} \cup
    {JStr(m) : m \in {"ping", "echo", "add", "nosuch", "fail", "deflt", "both",
                      "nores", "leak"}}
Ids == {ABSENT, JNull, JNum(1), JStr("abc"), JBool(TRUE)}
ParamsSet == {ABSENT, JArr(<<JNum(1), JNum(2)>>), JArr(<<JStr("hello")>>),
              JObj(json_object_set_value(json_empty_object, "k", JNum(1))),
              JArr(<<JObj(json_object_set_value(json_empty_object, "k",
                                                JArr(<<JNull, JBool(FALSE)>>))),
                     JArr(<<>>)>>),
              JStr("bad"), JNull}
Envelopes == {Envelope(j, m, i, p) : j \in Versions, m \in Methods, i \in Ids,
                                     p \in ParamsSet}

ReqPing == Envelope(JStr("2.0"), JStr("ping"), JNum(1), ABSENT)
ReqNoSuch == Envelope(JStr("2.0"), JStr("nosuch"), JStr("abc"), ABSENT)
ReqBadParams == Envelope(JStr("2.0"), JStr("ping"), JNum(1), JStr("bad"))
Notify == Envelope(JStr("2.0"), JStr("notify"), ABSENT, JArr(<<JStr("hello")>>))
NotifyBadParams == Envelope(JStr("2.0"), JStr("notify"), ABSENT, JStr("bad"))

MaxBatch == 2
BatchElements == {ReqPing, ReqNoSuch, ReqBadParams, Notify, NotifyBadParams,
                  JNum(7), Envelope(JStr("1.0"), JStr("ping"), JNum(1), ABSENT)}
Batches == {JArr(a) : a \in UNION {[1..n -> BatchElements] : n \in 1..MaxBatch}}
Scalars == {JNull, JNum(1), JStr("s"), JBool(TRUE), JArr(<<>>)}
Lines == Envelopes \cup Batches \cup Scalars

Pad(n) == [i \in 1..n |-> SP]
FrameBytes == {NL, CR, SP, Doc(ReqPing)}
ByteChunks == {<<>>, <<XX, NL>>, Pad(MAX_MESSAGE_BYTES), Pad(MAX_BUFFER_BYTES),
               Pad(MAX_MESSAGE_BYTES + 1) \o <<NL>>,
               <<Doc(ReqPing)>> \o Pad(MAX_MESSAGE_BYTES - 1)} \cup
    UNION {[1..n -> FrameBytes] : n \in 1..2}

\* Any of the four callbacks may be absent: every combination of the two
\* lifecycle callbacks, and every combination of the two handlers.
CallbackSets ==
    {[on_open |-> o, on_close |-> c, on_request |-> r, on_notification |-> n] :
        o \in BOOLEAN, c \in BOOLEAN, r \in BOOLEAN, n \in BOOLEAN} \
    {cb \in [on_open : BOOLEAN, on_close : BOOLEAN, on_request : BOOLEAN,
             on_notification : BOOLEAN] :
        ~(cb.on_open /\ cb.on_close) /\ ~(cb.on_request /\ cb.on_notification)}
Transports == {[send_raw |-> s, close |-> c] : s \in BOOLEAN, c \in BOOLEAN}

ApiIds == {nullptr, JNum(1), JStr("abc"), JBool(TRUE)}
ApiResults == {nullptr, JStr("pong")}
ApiCodes == {JSONRPC_ERR_PARSE, 42}
ApiMessages == {nullptr, cstr("custom")}

\* ------------------------------------------------------------------------
\* State.
VARIABLES
    conn_state,        \* "none", "open" (between conn_new and conn_free), "freed"
    closed,            \* conn->closed
    inbound,           \* conn->inbound
    callbacks,         \* conn->callbacks: which of the four are registered
    transport,         \* conn->transport: which of send_raw, close are provided
    parson_strict,     \* whether the JSON library rejects trailing bytes
    transport_closed,  \* the transport has been closed, by the engine or the peer
    last,              \* the last interface call: its arguments and its events
    n_on_open,         \* number of on_open invocations so far
    n_on_close,        \* number of on_close invocations so far
    nops,              \* number of interface calls after conn_new
    hist_input,        \* SpecChunk: all bytes fed so far; SpecOrder: all
                       \* bytes the buffer took in so far
    hist_events,       \* SpecChunk: all events of the feeds so far
    freed,             \* SpecFault: the json_value_free calls of the last call
    mem                \* the connection's arena, g_current_arena, the blocks
                       \* the allocator shim handed out, the system free calls

vars == <<conn_state, closed, inbound, callbacks, transport, parson_strict,
          transport_closed, last, n_on_open, n_on_close, nops, hist_input,
          hist_events, freed, mem>>

Call(op, arg, ev, exit) == [op |-> op, arg |-> arg, ev |-> ev, exit |-> exit]

Count(ev, kind) == Cardinality({i \in 1..Len(ev) : ev[i].e = kind})

Init ==
    /\ conn_state = "none"
    /\ closed = FALSE
    /\ inbound = EmptyBuffer
    /\ callbacks = [on_open |-> FALSE, on_close |-> FALSE, on_request |-> FALSE,
                    on_notification |-> FALSE]
    /\ transport = [send_raw |-> FALSE, close |-> FALSE]
    /\ parson_strict \in BOOLEAN
    /\ transport_closed = FALSE
    /\ last = Call("none", <<>>, <<>>, "none")
    /\ n_on_open = 0
    /\ n_on_close = 0
    /\ nops = 0
    /\ hist_input = <<>>
    /\ hist_events = <<>>
    /\ freed = <<>>
    /\ mem = NoMemory

\* jsonrpc_conn_new(transport, callbacks, ctx)
ConnNew ==
    /\ conn_state = "none"
    /\ \E cb \in CallbackSets, tr \in Transports :
          /\ callbacks' = cb
          /\ transport' = tr
          /\ last' = Call("conn_new", <<>>, conn_new_events(cb), "ok")
          /\ n_on_open' = n_on_open + Count(conn_new_events(cb), "on_open")
    /\ conn_state' = "open"
    /\ closed' = FALSE
    /\ inbound' = EmptyBuffer
    /\ mem' = [mem EXCEPT !.arena = arena_create(JSONRPC_ARENA_BYTES, ConnRegion)]
    /\ UNCHANGED <<parson_strict, transport_closed, n_on_close, nops, hist_input,
                   hist_events, freed>>

\* The effect of an interface call on everything but the history.
Effect(op, arg, r, buf) ==
    /\ inbound' = buf
    /\ last' = Call(op, arg, r.ev, r.exit)
    /\ transport_closed' = (transport_closed \/ Count(r.ev, "close") > 0)
    /\ n_on_open' = n_on_open + Count(r.ev, "on_open")
    /\ n_on_close' = n_on_close + Count(r.ev, "on_close")
    /\ nops' = nops + 1
    /\ UNCHANGED <<conn_state, closed, callbacks, transport, parson_strict, freed,
                   mem>>

\* jsonrpc_conn_feed(conn, data, len)
FeedCall(op, data) ==
    /\ conn_state = "open"
    /\ nops < MaxOps
    /\ LET r == jsonrpc_conn_feed(closed, transport, callbacks, parson_strict,
                                  inbound, data)
       IN  Effect(op, data, r, r.inbound)

\* Bytes arrive in arbitrary pieces.
FeedBytes ==
    /\ \E data \in ByteChunks : FeedCall("feed", data)
    /\ UNCHANGED <<hist_input, hist_events>>

\* One whole line is the first thing fed to a new connection.
FeedLine ==
    /\ last.op = "conn_new"
    /\ \E v \in Lines, eol \in {<<NL>>, <<CR, NL>>} :
          FeedCall("feed_line", <<Doc(v)>> \o eol)
    /\ UNCHANGED <<hist_input, hist_events>>

\* jsonrpc_conn_send_result(conn, id, result)
SendResult ==
    /\ conn_state = "open"
    /\ nops < MaxOps
    /\ \E id \in ApiIds, result \in ApiResults :
          LET s == jsonrpc_conn_send_result(transport, id, result)
          IN  Effect("send_result", <<id, result>>,
                     [ev |-> s.ev, exit |-> IF s.sent THEN "true" ELSE "false"],
                     inbound)
    /\ UNCHANGED <<hist_input, hist_events>>

\* jsonrpc_conn_send_error(conn, id, code, message)
SendError ==
    /\ conn_state = "open"
    /\ nops < MaxOps
    /\ \E id \in ApiIds, code \in ApiCodes, message \in ApiMessages :
          LET s == jsonrpc_conn_send_error(transport, id, code, message)
          IN  Effect("send_error", <<id, JNum(code), message>>,
                     [ev |-> s.ev, exit |-> IF s.sent THEN "true" ELSE "false"],
                     inbound)
    /\ UNCHANGED <<hist_input, hist_events>>

\* The transport closes on its own (the peer hangs up): the engine is not
\* called.
TransportCloses ==
    /\ conn_state = "open"
    /\ ~transport_closed
    /\ transport_closed' = TRUE
    /\ last' = Call("peer_close", <<>>, <<>>, "none")
    /\ UNCHANGED <<conn_state, closed, inbound, callbacks, transport,
                   parson_strict, n_on_open, n_on_close, nops, hist_input,
                   hist_events, freed, mem>>

\* jsonrpc_conn_free(conn)
ConnFree ==
    /\ conn_state = "open"
    /\ LET ev == conn_free_events(closed, callbacks)
       IN  /\ last' = Call("conn_free", <<>>, ev, "none")
           /\ n_on_close' = n_on_close + Count(ev, "on_close")
    /\ closed' = TRUE
    /\ inbound' = EmptyBuffer
    /\ conn_state' = "freed"
    /\ mem' = conn_free_memory(mem)
    /\ UNCHANGED <<callbacks, transport, parson_strict, transport_closed,
                   n_on_open, nops, hist_input, hist_events, freed>>

Next ==
    \/ ConnNew
    \/ FeedBytes
    \/ SendResult
    \/ SendError
    \/ TransportCloses
    \/ ConnFree

Spec == Init /\ [][Next]_vars

\* Chunking: the same bytes cut into pieces, with the whole input and
\* all the events kept.
ChunkPieces == {Pad(MAX_BUFFER_BYTES)} \cup
    UNION {[1..n -> {NL, SP, Doc(ReqPing)}] : n \in 1..2}

FeedPiece ==
    \E data \in ChunkPieces :
        /\ FeedCall("feed", data)
        /\ hist_input' = hist_input \o data
        /\ hist_events' = hist_events \o last'.ev

NextChunk ==
    \/ ConnNew
    \/ FeedPiece

SpecChunk == Init /\ [][NextChunk]_vars

\* Ordering: whole lines and pieces of lines that get different replies,
\* one or two lines to a feed, with the whole input and all the events kept.
OrderContents == {<<Doc(ReqPing)>>, <<Doc(ReqNoSuch)>>, <<Doc(Notify)>>, <<XX>>}
OrderLines == {c \o <<NL>> : c \in OrderContents}
OrderPairs == {a \o <<NL>> \o b \o <<NL>> :
                  a \in OrderContents \ {<<Doc(Notify)>>}, b \in OrderContents \ {<<Doc(Notify)>>}}
OrderPieces ==
    OrderLines \cup OrderPairs \cup
    {<<Doc(ReqPing)>>, <<NL>>, <<NL, Doc(ReqPing), NL>>,
     Pad(MAX_MESSAGE_BYTES + 1) \o <<NL>>,
     <<Doc(ReqPing), NL>> \o Pad(MAX_MESSAGE_BYTES + 1) \o <<NL>>}

\* The same pieces with "\r\n" for every '\n'.
RECURSIVE Crlf(_)
Crlf(s) ==
    IF s = <<>> THEN <<>>
    ELSE IF Head(s) = NL THEN <<CR, NL>> \o Crlf(Tail(s))
    ELSE <<Head(s)>> \o Crlf(Tail(s))

\* A feed of a piece as it is, at any time, or in its "\r\n" form, when
\* that form fits the buffer too, as the first feed of a connection.
OrderFeeds ==
    {[op |-> "feed", data |-> d] : d \in OrderPieces} \cup
    {[op |-> "feed_crlf", data |-> Crlf(d)] :
        d \in {p \in OrderPieces : Len(Crlf(p)) <= MAX_BUFFER_BYTES}}

FeedInOrder ==
    \E f \in OrderFeeds :
        /\ f.op = "feed_crlf" => last.op = "conn_new"
        /\ FeedCall(f.op, f.data)
        /\ hist_input' = IF last'.exit = "append_failed" THEN hist_input
                          ELSE hist_input \o f.data
        /\ hist_events' = hist_events \o last'.ev

NextOrder ==
    \/ ConnNew
    \/ FeedInOrder

SpecOrder == Init /\ [][NextOrder]_vars

\* Faults: one call on a new connection, with one allocation failing, or
\* none, or the transport failing to transmit.
FaultPoints == {"none", "init_object", "set_jsonrpc", "copy_id", "set_id",
                "set_result", "init_error", "set_code", "set_message", "set_error",
                "init_array", "append", "serialize", "payload", "transport",
                "reserve", "line"}
Faults == {[at |-> a, elem |-> e] : a \in FaultPoints, e \in 1..2}
Request(method, id, params) == Envelope(JStr("2.0"), JStr(method), id, params)
FaultLines ==
    {Request(m, JNum(1), ABSENT) :
        m \in {"ping", "fail", "both", "nores", "leak", "nosuch"}} \cup
    {Notify, JNum(7),
     JArr(<<ReqPing, Request("add", JStr("abc"), JArr(<<JNum(1), JNum(2)>>))>>),
     JArr(<<Request("leak", JStr("abc"), ABSENT), ReqPing>>),
     JArr(<<Notify, Request("both", JNum(1), ABSENT)>>)}

FeedLineFault ==
    /\ conn_state = "open"
    /\ last.op = "conn_new"
    /\ \E v \in FaultLines, fault \in Faults :
          LET r == jsonrpc_conn_feed_mem(transport, callbacks, v, fault)
          IN  /\ last' = Call("feed_line_fault", <<Doc(v), fault>>, r.ev, r.exit)
              /\ freed' = r.frees
              /\ transport_closed' = (Count(r.ev, "close") > 0)
    /\ nops' = nops + 1
    /\ UNCHANGED <<conn_state, closed, inbound, callbacks, transport,
                   parson_strict, n_on_open, n_on_close, hist_input, hist_events,
                   mem>>

SendFault(op, arg, s) ==
    /\ last' = Call(op, arg, s.ev, IF s.sent THEN "true" ELSE "false")
    /\ freed' = s.frees
    /\ nops' = nops + 1
    /\ UNCHANGED <<conn_state, closed, inbound, callbacks, transport,
                   parson_strict, transport_closed, n_on_open, n_on_close,
                   hist_input, hist_events, mem>>

SendResultFault ==
    /\ conn_state = "open"
    /\ last.op = "conn_new"
    /\ \E conn_null \in BOOLEAN, id \in ApiIds, result \in ApiResults, fail \in FaultPoints :
          SendFault("send_result_fault", <<conn_null, id, result, fail>>,
                    jsonrpc_conn_send_result_mem(conn_null, transport, id, result, fail))

SendErrorFault ==
    /\ conn_state = "open"
    /\ last.op = "conn_new"
    /\ \E id \in ApiIds, code \in ApiCodes, message \in ApiMessages, fail \in FaultPoints :
          SendFault("send_error_fault", <<id, JNum(code), message, fail>>,
                    jsonrpc_conn_send_error_mem(transport, id, code, message, fail))

NextFault ==
    \/ ConnNew
    \/ FeedLineFault
    \/ SendResultFault
    \/ SendErrorFault
    \/ ConnFree

SpecFault == Init /\ [][NextFault]_vars

\* The allocator shim driven call by call, as the JSON library drives it
\* inside and outside the arena scope of a message.
AllocSizes == {0, 1, 3, JSONRPC_ARENA_BYTES}

ScopeBegin ==
    /\ conn_state = "open"
    /\ ~mem.g_current_arena
    /\ mem' = jsonrpc_arena_scope_begin(mem)
    /\ UNCHANGED <<conn_state, closed, inbound, callbacks, transport, parson_strict,
                   transport_closed, last, n_on_open, n_on_close, nops,
                   hist_input, hist_events, freed>>

ScopeEnd ==
    /\ conn_state = "open"
    /\ mem.g_current_arena
    /\ mem' = jsonrpc_arena_scope_end(mem)
    /\ UNCHANGED <<conn_state, closed, inbound, callbacks, transport, parson_strict,
                   transport_closed, last, n_on_open, n_on_close, nops,
                   hist_input, hist_events, freed>>

ShimMalloc ==
    /\ Len(mem.blocks) < MaxBlocks
    /\ \E size \in AllocSizes, calloc_ok \in BOOLEAN :
          LET r == jsonrpc_arena_malloc(mem, size, calloc_ok)
          IN  /\ mem' = r.mem
              /\ last' = Call("jsonrpc_arena_malloc", <<size>>, r.ev,
                              IF r.ptr = 0 THEN "nullptr" ELSE "ok")
    /\ UNCHANGED <<conn_state, closed, inbound, callbacks, transport, parson_strict,
                   transport_closed, n_on_open, n_on_close, nops,
                   hist_input, hist_events, freed>>

ShimFree ==
    /\ \E ptr \in {0, ForeignPointer} \cup {i \in 1..Len(mem.blocks) : mem.blocks[i].live} :
          /\ mem' = jsonrpc_arena_free(mem, ptr)
          /\ last' = Call("jsonrpc_arena_free", <<ptr>>, <<>>, "none")
    /\ UNCHANGED <<conn_state, closed, inbound, callbacks, transport, parson_strict,
                   transport_closed, n_on_open, n_on_close, nops,
                   hist_input, hist_events, freed>>

NextShim ==
    \/ ConnNew
    \/ ScopeBegin
    \/ ShimMalloc
    \/ ShimFree
    \/ ScopeEnd
    \/ ConnFree

SpecShim == Init /\ [][NextShim]_vars

\* Lines that are answered by an error object, any of them followed or not
\* by a request, fed to any connection.
ReqFail == Request("fail", JNum(2), ABSENT)
ReqAfter == Request("ping", JNum(9), ABSENT)
ErrorContents ==
    {<<XX>>, <<Doc(JNum(7))>>, <<Doc(ReqNoSuch)>>, <<Doc(ReqBadParams)>>, <<Doc(ReqFail)>>}
ErrorPieces ==
    {c \o <<NL>> : c \in ErrorContents} \cup
    {c \o <<NL, Doc(ReqAfter), NL>> : c \in ErrorContents} \cup
    {<<Doc(ReqAfter), NL>>, <<XX, NL, Doc(JNum(7)), NL, Doc(ReqAfter), NL>>}

FeedAfterError ==
    \E data \in ErrorPieces :
        /\ FeedCall("feed_error", data)
        /\ hist_input' = hist_input \o data
        /\ hist_events' = hist_events \o last'.ev

NextError ==
    \/ ConnNew
    \/ FeedAfterError

SpecError == Init /\ [][NextError]_vars

\* The dispatcher: one call on a new connection, either one line drawn
\* from Lines or one out-of-band reply.
NextDispatch ==
    \/ ConnNew
    \/ FeedLine
    \/ (last.op = "conn_new" /\ SendResult)
    \/ (last.op = "conn_new" /\ SendError)
    \/ ConnFree

SpecDispatch == Init /\ [][NextDispatch]_vars


\* The dispatcher and the framing together: the first feed of a new
\* connection is one line drawn from Lines, or a line that never reaches
\* the dispatcher: bytes that are no JSON text, alone or before a request,
\* white space only, an empty line, or more than MAX_MESSAGE_BYTES bytes,
\* with or without a request at their head.
UnparsedLines ==
    {<<XX, NL>>, <<XX, Doc(ReqPing), NL>>, <<SP, NL>>, <<NL>>, <<CR, NL>>,
     Pad(MAX_MESSAGE_BYTES + 1) \o <<NL>>,
     <<Doc(ReqPing)>> \o Pad(MAX_MESSAGE_BYTES) \o <<NL>>,
     <<Doc(Notify)>> \o Pad(MAX_MESSAGE_BYTES) \o <<CR, NL>>}

FeedUnparsed ==
    /\ last.op = "conn_new"
    /\ \E data \in UnparsedLines : FeedCall("feed_unparsed", data)
    /\ UNCHANGED <<hist_input, hist_events>>

NextValidated ==
    \/ ConnNew
    \/ FeedLine
    \/ FeedUnparsed

SpecValidated == Init /\ [][NextValidated]_vars

\* The inbound buffer alone: appends of chunks of every size with either
\* outcome of calloc, and consumes of every count.
AppendChunks == {<<>>, <<SP>>, <<NL, XX>>, <<XX, SP, NL>>, Pad(MAX_BUFFER_BYTES)}

BufferAppend ==
    /\ conn_state = "open"
    /\ nops < MaxOps
    /\ \E data \in AppendChunks, calloc_ok \in BOOLEAN :
          LET a == rpc_buffer_append_calloc(inbound, data, calloc_ok)
          IN  /\ inbound' = a.buffer
              /\ last' = Call("append", data, a.ev, IF a.ok THEN "ok" ELSE "failed")
    /\ nops' = nops + 1
    /\ UNCHANGED <<conn_state, closed, callbacks, transport, parson_strict,
                   transport_closed, n_on_open, n_on_close, hist_input,
                   hist_events, freed, mem>>

BufferConsume ==
    /\ conn_state = "open"
    /\ nops < MaxOps
    /\ \E count \in 0..(Len(inbound.data) + 1) :
          /\ inbound' = rpc_buffer_consume(inbound, count)
          /\ last' = Call("consume", Pad(count), <<>>, "ok")
    /\ nops' = nops + 1
    /\ UNCHANGED <<conn_state, closed, callbacks, transport, parson_strict,
                   transport_closed, n_on_open, n_on_close, hist_input,
                   hist_events, freed, mem>>

NextBuffer ==
    \/ ConnNew
    \/ BufferAppend
    \/ BufferConsume

SpecBuffer == Init /\ [][NextBuffer]_vars

\* The arena alone (src/src/arena.c): an arena of any size on a region at
\* any address calloc may return, allocations of any size and alignment,
\* stores by the owner of the block returned last, and arena_clear.
ArenaSizes == {0, 3, JSONRPC_ARENA_BYTES}
CallocAddresses == {0} \cup {k * ARENA_DEFAULT_ALIGNMENT : k \in 2..3}
RequestSizes == {0, 1, 2, 3, JSONRPC_ARENA_BYTES, JSONRPC_ARENA_BYTES + 1}
Alignments == {0, 1, 2, 4}

\* What a call returned: the pointer and the bytes it points to.
EvBlock(arena, ptr, n) ==
    [e |-> "block", ptr |-> ptr,
     bytes |-> IF ptr = 0 THEN <<>>
               ELSE SubSeq(arena.bytes, ptr - arena.region + 1, ptr - arena.region + n)]

ArenaCreate ==
    /\ conn_state = "none"
    /\ mem.arena = NoArena
    /\ \E size \in ArenaSizes, region \in CallocAddresses :
          mem' = [mem EXCEPT !.arena = arena_create(size, region)]
    /\ UNCHANGED <<conn_state, closed, inbound, callbacks, transport, parson_strict,
                   transport_closed, last, n_on_open, n_on_close, nops,
                   hist_input, hist_events, freed>>

ArenaAllocAligned ==
    /\ mem.arena # NoArena
    /\ nops < MaxArenaOps
    /\ \E size \in RequestSizes, alignment \in Alignments :
          LET a == arena_alloc_aligned(mem.arena, size, alignment)
          IN  /\ mem' = [mem EXCEPT !.arena = a.arena]
              /\ last' = Call("arena_alloc_aligned", <<size, alignment>>,
                              <<EvBlock(a.arena, a.ptr, size)>>,
                              IF a.ok THEN "ok" ELSE "nullptr")
    /\ nops' = nops + 1
    /\ UNCHANGED <<conn_state, closed, inbound, callbacks, transport, parson_strict,
                   transport_closed, n_on_open, n_on_close, hist_input,
                   hist_events, freed>>

ArenaAlloc ==
    /\ mem.arena # NoArena
    /\ nops < MaxArenaOps
    /\ \E size \in RequestSizes :
          LET a == arena_alloc(mem.arena, size)
          IN  /\ mem' = [mem EXCEPT !.arena = a.arena]
              /\ last' = Call("arena_alloc", <<size, ARENA_DEFAULT_ALIGNMENT>>,
                              <<EvBlock(a.arena, a.ptr, size)>>,
                              IF a.ok THEN "ok" ELSE "nullptr")
    /\ nops' = nops + 1
    /\ UNCHANGED <<conn_state, closed, inbound, callbacks, transport, parson_strict,
                   transport_closed, n_on_open, n_on_close, hist_input,
                   hist_events, freed>>

\* The owner of the block returned last stores to all of it.
ArenaStore ==
    /\ last.op \in {"arena_alloc", "arena_alloc_aligned"}
    /\ last.exit = "ok"
    /\ mem' = [mem EXCEPT !.arena =
                  arena_written(mem.arena, last.ev[1].ptr, last.arg[1])]
    /\ last' = [last EXCEPT !.op = "store"]
    /\ UNCHANGED <<conn_state, closed, inbound, callbacks, transport, parson_strict,
                   transport_closed, n_on_open, n_on_close, nops, hist_input,
                   hist_events, freed>>

ArenaClear ==
    /\ mem.arena # NoArena
    /\ nops < MaxArenaOps
    /\ mem' = [mem EXCEPT !.arena = arena_clear(mem.arena)]
    /\ last' = Call("arena_clear", <<>>, <<>>, "none")
    /\ nops' = nops + 1
    /\ UNCHANGED <<conn_state, closed, inbound, callbacks, transport, parson_strict,
                   transport_closed, n_on_open, n_on_close, hist_input,
                   hist_events, freed>>

NextArena ==
    \/ ArenaCreate
    \/ ArenaAllocAligned
    \/ ArenaAlloc
    \/ ArenaStore
    \/ ArenaClear

SpecArena == Init /\ [][NextArena]_vars

\* Arena scopes over several connections, with the calls in progress kept
\* as frames: a callback (on_request, on_notification, send_raw, close) is
\* user code that may call the engine again, on any connection, before it
\* returns.  An arena pointer is the number of the connection that
\* created the arena; 0 is nullptr.  In mem:
\*   arenas[c]         the Arena of connection c
\*   conn_arena[c]     conn->arena of connection c
\*   destroyed         the arenas given to arena_destroy
\*   g_current_arena   the binding
\*   frames            the calls in progress, the innermost last, each with
\*                     its connection, its position and its local 'scope';
\*                     entry is the binding when the call was made and
\*                     freed whether jsonrpc_conn_free ran since.
Conns == {1, 2}

NoScope == [prev |-> 0, changed |-> FALSE]

\* jsonrpc_arena_scope_begin(arena) with the binding g: the binding it
\* leaves and the scope it returns.
scope_begin_never_idempotent(g, arena) ==
    IF arena = 0 THEN [g |-> g, scope |-> [prev |-> g, changed |-> FALSE]]
    ELSE [g |-> arena, scope |-> [prev |-> g, changed |-> TRUE]]

scope_begin(g, arena) ==
    IF arena = 0 \/ g = arena THEN [g |-> g, scope |-> [prev |-> g, changed |-> FALSE]]
    ELSE [g |-> arena, scope |-> [prev |-> g, changed |-> TRUE]]

scope_end_without_clear(m, arena, scope) ==
    IF ~scope.changed THEN m
    ELSE [m EXCEPT !.g_current_arena = scope.prev]

\* jsonrpc_arena_scope_end(arena, scope).  arena_clear of an arena that
\* was destroyed stores to freed memory; the model keeps no bytes of it.
scope_end(m, arena, scope) ==
    IF ~scope.changed THEN m
    ELSE [m EXCEPT !.arenas = IF arena # 0 /\ arena \notin m.destroyed
                              THEN [m.arenas EXCEPT ![arena] = arena_clear(@)]
                              ELSE m.arenas,
                   !.g_current_arena = scope.prev]

ScopeMemory ==
    [arenas |-> [c \in Conns |-> NoArena], conn_arena |-> [c \in Conns |-> 0],
     destroyed |-> {}, g_current_arena |-> 0, frames |-> <<>>]

InitScope ==
    /\ conn_state = [c \in Conns |-> "none"]
    /\ closed = FALSE
    /\ inbound = EmptyBuffer
    /\ callbacks = [on_open |-> FALSE, on_close |-> FALSE, on_request |-> FALSE,
                    on_notification |-> FALSE]
    /\ transport = [send_raw |-> FALSE, close |-> FALSE]
    /\ parson_strict = FALSE
    /\ transport_closed = FALSE
    /\ last = Call("none", <<>>, <<>>, "none")
    /\ n_on_open = 0
    /\ n_on_close = 0
    /\ nops = 0
    /\ hist_input = <<>>
    /\ hist_events = <<>>
    /\ freed = <<>>
    /\ mem = ScopeMemory

Frame(op, conn, pc, scope, entry) ==
    [op |-> op, conn |-> conn, pc |-> pc, scope |-> scope, entry |-> entry,
     freed |-> FALSE]

Depth == Len(mem.frames)
Top == mem.frames[Depth]
Pushed(m, f) == [m EXCEPT !.frames = Append(m.frames, f)]
Popped(m) == [m EXCEPT !.frames = SubSeq(m.frames, 1, Len(m.frames) - 1)]
At(m, pc) == [m EXCEPT !.frames[Len(m.frames)].pc = pc]

\* User code runs: no call is in progress, or the innermost call is inside
\* a callback.
InUserCode == IF Depth = 0 THEN TRUE ELSE Top.pc \in {"callback", "closing"}

\* The innermost call runs, on a connection that was not freed under it.
Running(op, pc) ==
    IF Depth = 0 THEN FALSE
    ELSE Top.op \in op /\ Top.pc = pc /\ conn_state[Top.conn] = "open"

Step(m, op, conn, exit) ==
    /\ mem' = m
    /\ last' = Call(op, <<>>, <<>>, exit)
    /\ UNCHANGED <<closed, inbound, callbacks, transport, parson_strict,
                   transport_closed, n_on_open, n_on_close, nops, hist_input,
                   hist_events, freed>>

\* jsonrpc_conn_new, by user code; region is what calloc gave arena_create.
ScopeConnNew ==
    /\ InUserCode
    /\ \E c \in Conns, region \in {0, ConnRegion} :
          /\ conn_state[c] = "none"
          /\ conn_state' = [conn_state EXCEPT ![c] = "open"]
          /\ Step([mem EXCEPT
                      !.arenas[c] = arena_create(JSONRPC_ARENA_BYTES, region),
                      !.conn_arena[c] = IF region = 0 THEN 0 ELSE c],
                  "conn_new", c, "none")

\* jsonrpc_conn_free, lines 527-546, by user code.
ScopeConnFree ==
    /\ InUserCode
    /\ \E c \in Conns :
          /\ conn_state[c] = "open"
          /\ conn_state' = [conn_state EXCEPT ![c] = "freed"]
          /\ Step([mem EXCEPT
                      !.g_current_arena =
                          IF mem.conn_arena[c] # 0 /\ @ = mem.conn_arena[c] THEN 0 ELSE @,
                      !.destroyed = @ \cup (IF mem.conn_arena[c] # 0
                                            THEN {mem.conn_arena[c]} ELSE {}),
                      !.conn_arena[c] = 0,
                      !.frames = [i \in 1..Depth |-> [mem.frames[i] EXCEPT !.freed = TRUE]]],
                  "conn_free", c, "none")

\* jsonrpc_conn_feed entered, by user code: line 548.
CallFeed ==
    /\ InUserCode
    /\ Depth < MaxDepth
    /\ \E c \in Conns :
          /\ conn_state[c] = "open"
          /\ Step(Pushed(mem, Frame("feed", c, "loop", NoScope, mem.g_current_arena)),
                  "call_feed", c, "none")
    /\ UNCHANGED conn_state

\* jsonrpc_conn_send_error or jsonrpc_conn_send_result entered, by user
\* code or by jsonrpc_conn_feed on its own connection: lines 672-674 and
\* 696-698.
EnterSend(c, after) ==
    LET b == scope_begin(mem.g_current_arena, mem.conn_arena[c])
    IN  Step(Pushed([At(mem, after) EXCEPT !.g_current_arena = b.g],
                    Frame("send", c, "scope", b.scope, mem.g_current_arena)),
             "call_send", c, "none")

CallSend ==
    /\ InUserCode
    /\ Depth < MaxDepth
    /\ \E c \in Conns :
          /\ conn_state[c] = "open"
          /\ IF Depth = 0
             THEN LET b == scope_begin(mem.g_current_arena, mem.conn_arena[c])
                  IN  Step(Pushed([mem EXCEPT !.g_current_arena = b.g],
                                  Frame("send", c, "scope", b.scope,
                                        mem.g_current_arena)),
                           "call_send", c, "none")
             ELSE EnterSend(c, Top.pc)
    /\ UNCHANGED conn_state

\* jsonrpc_conn_feed, lines 601-602: the epoch of a line begins.
BeginEpoch ==
    /\ Running({"feed"}, "loop")
    /\ LET b == scope_begin(mem.g_current_arena, mem.conn_arena[Top.conn])
       IN  Step([At(mem, "epoch") EXCEPT !.g_current_arena = b.g,
                                        !.frames[Depth].scope = b.scope],
                "scope_begin", Top.conn, "none")
    /\ UNCHANGED conn_state

\* jsonrpc_conn_feed, lines 555-566 and 588-599: a breach; the error is
\* sent by jsonrpc_conn_send_error, then transport.close runs and feed
\* returns.
Breach ==
    /\ Running({"feed"}, "loop")
    /\ EnterSend(Top.conn, "closing")
    /\ UNCHANGED conn_state

\* jsonrpc_conn_feed, lines 609-611 and 626-628: inside the epoch the
\* error is sent by jsonrpc_conn_send_error.
ErrorInEpoch ==
    /\ Running({"feed"}, "epoch")
    /\ EnterSend(Top.conn, "epoch")
    /\ UNCHANGED conn_state

\* jsonrpc_arena_malloc, called by the JSON library or the engine inside a
\* scope, under a binding that is not dangling.
ScopeMalloc ==
    /\ IF Running({"feed"}, "epoch") THEN TRUE ELSE Running({"send"}, "scope")
    /\ mem.g_current_arena \notin mem.destroyed
    /\ \E size \in {3}, calloc_ok \in BOOLEAN :
          LET g == mem.g_current_arena
              r == jsonrpc_arena_malloc(
                       [arena |-> IF g = 0 THEN NoArena ELSE mem.arenas[g],
                        g_current_arena |-> g # 0, blocks |-> <<>>, sys_free |-> <<>>],
                       size, calloc_ok)
          IN  Step(IF g = 0 THEN mem ELSE [mem EXCEPT !.arenas[g] = r.mem.arena],
                   "malloc", Top.conn, "none")
    /\ UNCHANGED conn_state

\* A handler, transport.send_raw or transport.close is called.
EnterCallback ==
    /\ IF Running({"feed"}, "epoch") THEN TRUE ELSE Running({"send"}, "scope")
    /\ Step(At(mem, "callback"), "callback", Top.conn, "none")
    /\ UNCHANGED conn_state

\* The callback returns to the call that made it.
LeaveCallback ==
    /\ Depth > 0
    /\ Top.pc = "callback"
    /\ Step(At(mem, IF Top.op = "feed" THEN "epoch" ELSE "scope"),
            "callback_returns", Top.conn, "none")
    /\ UNCHANGED conn_state

\* jsonrpc_conn_feed, line 654: the epoch ends.  conn->arena of a
\* connection that was freed under the call is read from freed memory:
\* nullptr or the pointer of the destroyed arena.
EndEpoch ==
    /\ Depth > 0
    /\ Top.op = "feed"
    /\ Top.pc = "epoch"
    /\ Step(At(scope_end(mem, mem.conn_arena[Top.conn], Top.scope), "loop"),
            "scope_end", Top.conn, IF Top.scope.changed THEN "changed" ELSE "same")
    /\ UNCHANGED conn_state

\* jsonrpc_conn_send_error and jsonrpc_conn_send_result, lines 677-684 and
\* 701-708: the scope ends and the call returns.
ReturnSend ==
    /\ Depth > 0
    /\ Top.op = "send"
    /\ Top.pc = "scope"
    /\ mem' = Popped(scope_end(mem, mem.conn_arena[Top.conn], Top.scope))
    /\ last' = Call("return", <<Top.conn>>, <<Top>>, "none")
    /\ UNCHANGED <<conn_state, closed, inbound, callbacks, transport, parson_strict,
                   transport_closed, n_on_open, n_on_close, nops, hist_input,
                   hist_events, freed>>

\* jsonrpc_conn_feed returns: no '\n' is left, or a send failed, or after a
\* breach.
ReturnFeed ==
    /\ Depth > 0
    /\ Top.op = "feed"
    /\ Top.pc \in {"loop", "closing"}
    /\ mem' = Popped(mem)
    /\ last' = Call("return", <<Top.conn>>, <<Top>>, "none")
    /\ UNCHANGED <<conn_state, closed, inbound, callbacks, transport, parson_strict,
                   transport_closed, n_on_open, n_on_close, nops, hist_input,
                   hist_events, freed>>

NextScope ==
    \/ ScopeConnNew
    \/ ScopeConnFree
    \/ CallFeed
    \/ CallSend
    \/ BeginEpoch
    \/ Breach
    \/ ErrorInEpoch
    \/ ScopeMalloc
    \/ EnterCallback
    \/ LeaveCallback
    \/ EndEpoch
    \/ ReturnSend
    \/ ReturnFeed

SpecScope == InitScope /\ [][NextScope]_vars

\* ------------------------------------------------------------------------
\* The libuv server of server.c.  libuv is a library outside the
\* repository; of it the model keeps what its documentation states:
\* uv_close(handle, cb) marks the handle closing and the loop calls cb,
\* unless it is nullptr, on a later iteration; uv_is_closing is true from
\* then on; uv_stop makes uv_run return at the end of the iteration; and
\* uv_run(UV_RUN_DEFAULT) returns when no handle is active or closing.
\* In mem:
\*   phase                 "first" and "second" for the two uv_run calls of
\*                         start_jsonrpc_server, "returned" after it
\*   stop                  uv_stop was called
\*   g_shutdown_requested  the flag of server.c
\*   client[c]             the tcp handle and the context of client c:
\*     handle    "none", "active", "closing" or "closed"
\*     close_cb  the callback given to uv_close
\*     rpc       ctx->rpc is not nullptr
\*     n_free    the calls of jsonrpc_conn_free for ctx->rpc
\*     n_close   the on_close events of the connection
\*     ctx       "none", "allocated" or "freed"
Clients == 1..MaxClients

NoClient ==
    [handle |-> "none", close_cb |-> "none", rpc |-> FALSE, n_free |-> 0,
     n_close |-> 0, ctx |-> "none"]

ServerMemory ==
    [phase |-> "first", stop |-> FALSE, g_shutdown_requested |-> FALSE,
     client |-> [c \in Clients |-> NoClient]]

InitServer ==
    /\ conn_state = "none"
    /\ closed = FALSE
    /\ inbound = EmptyBuffer
    /\ callbacks = [on_open |-> FALSE, on_close |-> TRUE, on_request |-> FALSE,
                    on_notification |-> FALSE]
    /\ transport = [send_raw |-> TRUE, close |-> TRUE]
    /\ parson_strict = FALSE
    /\ transport_closed = FALSE
    /\ last = Call("none", <<>>, <<>>, "none")
    /\ n_on_open = 0
    /\ n_on_close = 0
    /\ nops = 0
    /\ hist_input = <<>>
    /\ hist_events = <<>>
    /\ freed = <<>>
    /\ mem = ServerMemory

ServerStep(m, op, c) ==
    /\ mem' = m
    /\ last' = Call(op, <<c>>, <<>>, "none")
    /\ UNCHANGED <<conn_state, closed, inbound, callbacks, transport,
                   parson_strict, transport_closed, n_on_open, n_on_close, nops,
                   hist_input, hist_events, freed>>

\* uv_close(handle, cb).
uv_close(client, cb) == [client EXCEPT !.handle = "closing", !.close_cb = cb]

\* transport_close, lines 108-111.
transport_close(client) == uv_close(client, "on_uv_client_closed")

\* close_handle, lines 19-23, for the handle of a client.
close_handle(client) ==
    IF client.handle = "active" THEN uv_close(client, "nullptr") ELSE client

\* on_uv_client_closed, lines 98-106; jsonrpc_conn_free emits on_close for
\* a connection that is not closed.
on_uv_client_closed(client) ==
    [client EXCEPT !.rpc = FALSE,
                   !.n_free = IF client.rpc THEN @ + 1 ELSE @,
                   !.n_close = IF client.rpc THEN @ + 1 ELSE @,
                   !.ctx = "freed"]

\* on_new_connection, lines 139-185, when uv_tcp_init and uv_accept
\* succeed: the client is served, or an allocation fails and the handle is
\* closed at once.
OnNewConnection ==
    /\ mem.phase = "first"
    /\ ~mem.stop
    /\ \E c \in Clients, alloc_ok \in BOOLEAN :
          /\ mem.client[c].handle = "none"
          /\ LET accepted == [NoClient EXCEPT !.handle = "active", !.ctx = "allocated"]
             IN  ServerStep([mem EXCEPT !.client[c] =
                                IF alloc_ok THEN [accepted EXCEPT !.rpc = TRUE]
                                ELSE transport_close(accepted)],
                            "on_new_connection", c)

\* transport_close called for a served client: by on_uv_read on a read
\* error or end of stream (line 135), or by the engine inside
\* jsonrpc_conn_feed.
TransportClose ==
    /\ mem.phase = "first"
    /\ ~mem.stop
    /\ \E c \in Clients :
          /\ mem.client[c].handle = "active"
          /\ ServerStep([mem EXCEPT !.client[c] = transport_close(@)],
                        "transport_close", c)

\* server_request_shutdown, lines 50-58, from the signal callback of
\* main.c inside the first uv_run.
ServerRequestShutdown ==
    /\ mem.phase = "first"
    /\ ~mem.stop
    /\ ServerStep([mem EXCEPT !.g_shutdown_requested = TRUE,
                              !.stop = TRUE,
                              !.client = [c \in Clients |-> close_handle(mem.client[c])]],
                  "server_request_shutdown", 0)

\* The loop finishes closing a handle and calls its close callback.
RunCloseCallback ==
    /\ mem.phase \in {"first", "second"}
    /\ \E c \in Clients :
          /\ mem.client[c].handle = "closing"
          /\ LET done == [mem.client[c] EXCEPT !.handle = "closed"]
             IN  ServerStep([mem EXCEPT !.client[c] =
                                IF done.close_cb = "on_uv_client_closed"
                                THEN on_uv_client_closed(done) ELSE done],
                            "close_callback", c)

\* start_jsonrpc_server, lines 221-225: the first uv_run returns after
\* uv_stop and the second runs.
SecondRun ==
    /\ mem.phase = "first"
    /\ mem.stop
    /\ mem.g_shutdown_requested
    /\ ServerStep([mem EXCEPT !.phase = "second"], "uv_run", 0)

\* The second uv_run returns when no handle is closing, and
\* start_jsonrpc_server returns.
ServerReturns ==
    /\ mem.phase = "second"
    /\ \A c \in Clients : mem.client[c].handle # "closing"
    /\ ServerStep([mem EXCEPT !.phase = "returned"], "return", 0)

NextServer ==
    \/ OnNewConnection
    \/ TransportClose
    \/ ServerRequestShutdown
    \/ RunCloseCallback
    \/ SecondRun
    \/ ServerReturns

SpecServer == InitServer /\ [][NextServer]_vars

\* ------------------------------------------------------------------------
\* Properties.

IsSend(e) == e.e = "send_raw"
IsHandler(e) == e.e \in {"on_request", "on_notification"}
\* The payloads handed to transport.send_raw, in order.
Sent(ev) == SelectSeq(ev, IsSend)
\* The JSON value a payload of one text and '\n' carries.
PayloadValue(e) == e.data[1].v

\* The step is a jsonrpc_conn_feed call.
FeedStep == nops' = nops + 1 /\ last'.op \in {"feed", "feed_line"}

RECURSIVE AfterLastNewline(_)
AfterLastNewline(s) ==
    IF \A i \in 1..Len(s) : s[i] # NL THEN s
    ELSE AfterLastNewline(Tail(s))

\* C1: the events of a connection fed in pieces (the response stream, the
\* handler invocations, the transport.close calls) are those of a new
\* connection with the same callbacks fed the concatenated input in one
\* call: they do not depend on where the input is cut.
C1_ChunkingIrrelevant ==
    (conn_state = "open" /\ transport.send_raw /\ transport.close) =>
        hist_events = jsonrpc_conn_feed(FALSE, transport, callbacks, parson_strict,
                                        EmptyBuffer, hist_input).ev

\* C2 as stated: after every feed call the inbound buffer holds no '\n'.
C2_NoNewlineAfterFeed ==
    (conn_state = "open" /\ last.op = "feed") =>
        \A i \in 1..Len(inbound.data) : inbound.data[i] # NL

\* C2 as amended: a feed call that stored its bytes and returned because no
\* '\n' was left (no rejected append, no oversize line, no failed send)
\* leaves in the buffer exactly the bytes that follow the last '\n' of the
\* earlier buffer contents followed by the new bytes, and no '\n'.
C2_DrainedBufferIsTail ==
    [][(FeedStep /\ last'.exit = "drained") =>
          /\ inbound'.data = AfterLastNewline(inbound.data \o last'.arg)
          /\ \A i \in 1..Len(inbound'.data) : inbound'.data[i] # NL]_vars

\* A line was dispatched and the incomplete bytes after it stayed buffered.
C2_Witness ==
    /\ last.op = "feed"
    /\ last.exit = "drained"
    /\ last.arg = <<NL, SP>>
    /\ Len(Sent(last.ev)) = 1
    /\ inbound.data = <<SP>>


\* The JSON value of the line fed by the last call, a FeedLine call.
LineValue == last.arg[1].v
HasKey(v, name) == name \in DOMAIN v.o

\* An object with jsonrpc "2.0" and a string method.
IsEnvelope(v) ==
    /\ v.t = "obj"
    /\ HasKey(v, "jsonrpc") /\ v.o["jsonrpc"] = JStr("2.0")
    /\ HasKey(v, "method") /\ v.o["method"].t = "str"
ParamsOk(v) == HasKey(v, "params") => v.o["params"].t \in {"arr", "obj"}
\* An envelope with an id of type string, number or null.
HasRequestId(v) == HasKey(v, "id") /\ v.o["id"].t \in {"str", "num", "null"}
IsValidRequest(v) == IsEnvelope(v) /\ HasRequestId(v) /\ ParamsOk(v)
IsValidNotification(v) == IsEnvelope(v) /\ ~HasKey(v, "id") /\ ParamsOk(v)

\* C3: a valid request fed as one line gets exactly one response handed to
\* the transport, an object whose id equals the id of the request.
C3_RequestGetsOneResponse ==
    (last.op = "feed_line" /\ transport.send_raw /\ IsValidRequest(LineValue)) =>
        /\ Len(Sent(last.ev)) = 1
        /\ PayloadValue(Sent(last.ev)[1]).t = "obj"
        /\ HasKey(PayloadValue(Sent(last.ev)[1]), "id")
        /\ PayloadValue(Sent(last.ev)[1]).o["id"] = LineValue.o["id"]

\* A request with a string id was answered with a result.
C3_Witness ==
    /\ last.op = "feed_line"
    /\ transport.send_raw
    /\ IsValidRequest(LineValue)
    /\ LineValue.o["id"] = JStr("abc")
    /\ Len(Sent(last.ev)) = 1
    /\ HasKey(PayloadValue(Sent(last.ev)[1]), "result")

\* C4: a valid notification fed as one line gets no response (send_raw is
\* not called), no on_request, and on_notification, when registered, is
\* invoked exactly once, with its method and its params.
C4_NotificationGetsNoResponse ==
    (last.op = "feed_line" /\ IsValidNotification(LineValue)) =>
        /\ Sent(last.ev) = <<>>
        /\ last.ev =
              IF callbacks.on_notification
              THEN <<EvNotification(cstr(LineValue.o["method"].s),
                                    IF HasKey(LineValue, "params")
                                    THEN LineValue.o["params"] ELSE nullptr)>>
              ELSE <<>>

\* A notification with array params reached on_notification.
C4_Witness ==
    /\ last.op = "feed_line"
    /\ IsValidNotification(LineValue)
    /\ HasKey(LineValue, "params")
    /\ LineValue.o["params"].t = "arr"
    /\ Count(last.ev, "on_notification") = 1

\* The elements of a batch that are requests (envelopes with an id), in order.
IsRequestElement(v) == IsEnvelope(v) /\ HasRequestId(v)
IsNotificationElement(v) == IsEnvelope(v) /\ ~HasKey(v, "id")
RequestIds(a) ==
    LET reqs == SelectSeq(a, IsRequestElement)
    IN  [i \in 1..Len(reqs) |-> reqs[i].o["id"]]
IsBatchOfRequestsAndNotifications(v) ==
    /\ v.t = "arr"
    /\ Len(v.a) > 0
    /\ \A i \in 1..Len(v.a) : IsRequestElement(v.a[i]) \/ IsNotificationElement(v.a[i])

\* C5: a batch of n requests and notifications of which k are requests gets
\* one array of exactly k response objects, answering the requests in the
\* order they have in the batch; an all-notification batch (k = 0) gets
\* nothing.
C5_BatchResponses ==
    (last.op = "feed_line" /\ transport.send_raw
        /\ IsBatchOfRequestsAndNotifications(LineValue)) =>
        LET ids == RequestIds(LineValue.a)
        IN  IF Len(ids) = 0 THEN Sent(last.ev) = <<>>
            ELSE /\ Len(Sent(last.ev)) = 1
                 /\ PayloadValue(Sent(last.ev)[1]).t = "arr"
                 /\ LET out == PayloadValue(Sent(last.ev)[1]).a
                    IN  /\ Len(out) = Len(ids)
                        /\ \A i \in 1..Len(out) :
                              out[i].t = "obj" /\ out[i].o["id"] = ids[i]

\* A batch with two requests of different ids was answered in order.
C5_Witness ==
    /\ last.op = "feed_line"
    /\ transport.send_raw
    /\ IsBatchOfRequestsAndNotifications(LineValue)
    /\ RequestIds(LineValue.a) = <<JStr("abc"), JNum(1)>>
    /\ Len(Sent(last.ev)) = 1

\* An all-notification batch got nothing.
C5_WitnessNone ==
    /\ last.op = "feed_line"
    /\ transport.send_raw
    /\ IsBatchOfRequestsAndNotifications(LineValue)
    /\ Len(LineValue.a) = 2
    /\ RequestIds(LineValue.a) = <<>>
    /\ last.ev # <<>>

\* The response objects of a payload: the value itself, or the elements of a
\* batch response array.
ResponseObjects(v) == IF v.t = "arr" THEN {v.a[i] : i \in 1..Len(v.a)} ELSE {v}
WellFormedResponse(r) ==
    /\ r.t = "obj"
    /\ \/ DOMAIN r.o = {"jsonrpc", "id", "result"}
       \/ DOMAIN r.o = {"jsonrpc", "id", "error"}
    /\ r.o["jsonrpc"] = JStr("2.0")

\* C6: every response object handed to the transport, alone or as an
\* element of a batch response, by feed, send_result or send_error, has the
\* keys jsonrpc and id and exactly one of result and error, and jsonrpc is
\* "2.0".
C6_ResponseShape ==
    \A i \in 1..Len(Sent(last.ev)) :
        \A r \in ResponseObjects(PayloadValue(Sent(last.ev)[i])) :
            WellFormedResponse(r)

\* A batch response that holds a result and an error.
C6_Witness ==
    /\ last.op = "feed_line"
    /\ Len(Sent(last.ev)) = 1
    /\ PayloadValue(Sent(last.ev)[1]).t = "arr"
    /\ \E r \in ResponseObjects(PayloadValue(Sent(last.ev)[1])) : HasKey(r, "result")
    /\ \E r \in ResponseObjects(PayloadValue(Sent(last.ev)[1])) : HasKey(r, "error")


\* C7: on_close is invoked at most once on a connection, whether the engine
\* closed the transport, the peer did, or neither; and once jsonrpc_conn_free
\* has returned it has been invoked exactly once (when it is registered).
C7_OnCloseOnce ==
    /\ n_on_close <= 1
    /\ (conn_state = "freed" /\ callbacks.on_close) => n_on_close = 1

\* A connection whose transport the engine closed after an oversize line
\* was freed, and on_close was invoked once.
C7_Witness ==
    /\ conn_state = "freed"
    /\ callbacks.on_close
    /\ transport.close
    /\ transport_closed
    /\ nops = MaxOps
    /\ n_on_close = 1

\* C8: once the transport of a connection has been closed, by the engine or
\* by the peer, a jsonrpc_conn_feed call invokes no callback, sends nothing
\* and does not call transport.close.
C8_FeedAfterCloseIsNoOp ==
    [][(transport_closed /\ FeedStep) => last'.ev = <<>>]_vars

\* C9: jsonrpc_conn_new invokes on_open, when registered, exactly once and
\* nothing else; no feed, send_result, send_error or free invokes it, so a
\* connection has seen exactly one on_open.
C9_OnOpenOnce ==
    /\ (conn_state # "none" /\ callbacks.on_open) => n_on_open = 1
    /\ (last.op = "conn_new" /\ callbacks.on_open) => last.ev = <<EvOpen>>
    /\ (last.op # "conn_new") => Count(last.ev, "on_open") = 0

\* A connection with on_open registered was fed, closed and freed.
C9_Witness ==
    /\ conn_state = "freed"
    /\ callbacks.on_open
    /\ transport_closed
    /\ nops = MaxOps
    /\ n_on_open = 1

\* The feed call completes the first line of the buffer: the bytes
\* buffered so far and the bytes fed hold one '\n', the last byte.
CompletesOneLine(buffered, data) ==
    /\ Len(buffered) + Len(data) <= MAX_BUFFER_BYTES
    /\ data # <<>>
    /\ data[Len(data)] = NL
    /\ \A i \in 1..(Len(buffered) + Len(data) - 1) : (buffered \o data)[i] # NL
\* The bytes of that line before its '\n'.
BytesBeforeNewline(buffered, data) ==
    SubSeq(buffered \o data, 1, Len(buffered) + Len(data) - 1)
\* The same without one '\r' at the end.
BytesBeforeTerminator(buffered, data) ==
    LET l == BytesBeforeNewline(buffered, data)
    IN  IF l # <<>> /\ l[Len(l)] = CR THEN SubSeq(l, 1, Len(l) - 1) ELSE l

\* The reply to an oversize line: Invalid Request, "Request too large", id
\* null.
IsRequestTooLarge(e) ==
    /\ e.e = "send_raw"
    /\ Len(e.data) = 2
    /\ e.data[2] = NL
    /\ PayloadValue(e).t = "obj"
    /\ DOMAIN PayloadValue(e).o = {"jsonrpc", "id", "error"}
    /\ PayloadValue(e).o["jsonrpc"] = JStr("2.0")
    /\ PayloadValue(e).o["id"] = JNull
    /\ PayloadValue(e).o["error"].t = "obj"
    /\ DOMAIN PayloadValue(e).o["error"].o = {"code", "message"}
    /\ PayloadValue(e).o["error"].o["code"] = JNum(JSONRPC_ERR_INVALID_REQUEST)
    /\ PayloadValue(e).o["error"].o["message"] = JStr("Request too large")
\* What an oversize line makes the engine do: the reply, then the close.
OversizeBreach(ev) ==
    /\ Len(ev) = (IF transport.send_raw THEN 1 ELSE 0) + (IF transport.close THEN 1 ELSE 0)
    /\ transport.send_raw => IsRequestTooLarge(ev[1])
    /\ transport.close => ev[Len(ev)] = EvClose
\* The line was taken out of the buffer and parsed: a request followed by
\* white space reached on_request, and the line got one reply.
Dispatched(line, ev) ==
    /\ inbound'.data = <<>>
    /\ \A i \in 1..Len(ev) : ~IsRequestTooLarge(ev[i])
    /\ (callbacks.on_request /\ line[1] = Doc(ReqPing)
           /\ \A i \in 2..Len(line) : IsSpace(line[i])) => Count(ev, "on_request") = 1
    /\ transport.send_raw => Len(Sent(ev)) = 1

\* C10 as stated, the length being that of the line without its '\n': MAX_MESSAGE_BYTES
\* bytes are accepted, one more is an oversize breach.
C10_LimitExcludingNewline ==
    [][(FeedStep /\ CompletesOneLine(inbound.data, last'.arg)) =>
          LET n == Len(BytesBeforeNewline(inbound.data, last'.arg))
          IN  /\ n = MAX_MESSAGE_BYTES => last'.exit # "too_large"
              /\ n = MAX_MESSAGE_BYTES + 1 => last'.exit = "too_large"]_vars

\* C10, the length being that of the line without its '\n' and without one
\* '\r' before it: a line of MAX_MESSAGE_BYTES bytes is taken out of the
\* buffer, parsed and dispatched; a line one byte longer gets the reply
\* "Request too large" (Invalid Request, id null) when send_raw is provided,
\* then transport.close when provided, and no handler is invoked.
C10_LimitExcludingTerminator ==
    [][(FeedStep /\ CompletesOneLine(inbound.data, last'.arg)) =>
          LET line == BytesBeforeTerminator(inbound.data, last'.arg)
          IN  /\ Len(line) = MAX_MESSAGE_BYTES =>
                    /\ last'.exit # "too_large"
                    /\ Dispatched(line, last'.ev)
              /\ Len(line) = MAX_MESSAGE_BYTES + 1 =>
                    /\ last'.exit = "too_large"
                    /\ OversizeBreach(last'.ev)]_vars

\* A line of MAX_MESSAGE_BYTES + 1 bytes got the reply and the close.
C10_Witness ==
    /\ last.op = "feed"
    /\ last.arg = Pad(MAX_MESSAGE_BYTES + 1) \o <<NL>>
    /\ nops = 1
    /\ last.exit = "too_large"
    /\ transport.send_raw /\ transport.close
    /\ Len(last.ev) = 2
    /\ IsRequestTooLarge(last.ev[1])

\* A line of MAX_MESSAGE_BYTES bytes and "\r\n", a request, reached on_request.
C10_WitnessAtLimit ==
    /\ last.op = "feed"
    /\ last.arg = <<CR, NL>>
    /\ nops = 2
    /\ inbound.data = <<>>
    /\ Count(last.ev, "on_request") = 1


HasNoNewline(s) == \A i \in 1..Len(s) : s[i] # NL

\* C11: the inbound buffer never holds more than MAX_BUFFER_BYTES bytes; a
\* partial line that fills it to exactly MAX_BUFFER_BYTES is kept without
\* any event; a feed that would take it past MAX_BUFFER_BYTES stores
\* nothing, and the engine replies "Request too large" (Invalid Request, id
\* null) when send_raw is provided and calls transport.close when provided.
C11_BufferCap ==
    /\ [](Len(inbound.data) <= MAX_BUFFER_BYTES)
    /\ [][FeedStep =>
            /\ (last'.arg # <<>>
                  /\ HasNoNewline(inbound.data \o last'.arg)
                  /\ Len(inbound.data) + Len(last'.arg) = MAX_BUFFER_BYTES) =>
                     /\ last'.exit = "drained"
                     /\ last'.ev = <<>>
                     /\ inbound'.data = inbound.data \o last'.arg
            /\ (Len(inbound.data) + Len(last'.arg) = MAX_BUFFER_BYTES + 1) =>
                     /\ last'.exit = "append_failed"
                     /\ OversizeBreach(last'.ev)
                     /\ inbound' = inbound]_vars

\* One byte fed to a buffer that holds a partial line of MAX_BUFFER_BYTES
\* bytes got the reply and the close.
C11_Witness ==
    /\ last.op = "feed"
    /\ Len(last.arg) = 1
    /\ last.exit = "append_failed"
    /\ Len(inbound.data) = MAX_BUFFER_BYTES
    /\ HasNoNewline(inbound.data)
    /\ transport.send_raw /\ transport.close
    /\ Len(last.ev) = 2
    /\ IsRequestTooLarge(last.ev[1])
    /\ last.ev[2] = EvClose


\* The complete lines of an input, in order, each without its '\n' and
\* without one '\r' before it.
WithoutCr(l) == IF l # <<>> /\ l[Len(l)] = CR THEN SubSeq(l, 1, Len(l) - 1) ELSE l
RECURSIVE CompleteLines(_)
CompleteLines(s) ==
    IF HasNoNewline(s) THEN <<>>
    ELSE LET n == CHOOSE i \in 1..Len(s) : s[i] = NL /\ HasNoNewline(SubSeq(s, 1, i - 1))
         IN  <<WithoutCr(SubSeq(s, 1, n - 1))>> \o
             CompleteLines(SubSeq(s, n + 1, Len(s)))
\* The lines that come before the first line longer than MAX_MESSAGE_BYTES.
RECURSIVE BeforeOversize(_)
BeforeOversize(lines) ==
    IF lines = <<>> \/ Len(Head(lines)) > MAX_MESSAGE_BYTES THEN <<>>
    ELSE <<Head(lines)>> \o BeforeOversize(Tail(lines))
\* The id of the reply a line is due: none for an empty line and for a
\* notification, null for a line that is no JSON text, else the request's.
AnswerIds(line) ==
    LET v == json_parse_string(line, parson_strict)
    IN  IF line = <<>> THEN <<>>
        ELSE IF v = nullptr THEN <<JNull>>
        ELSE IF HasKey(v, "id") THEN <<v.o["id"]>>
        ELSE <<>>
RECURSIVE ExpectedIds(_)
ExpectedIds(lines) ==
    IF lines = <<>> THEN <<>>
    ELSE AnswerIds(Head(lines)) \o ExpectedIds(Tail(lines))
IsLineReply(e) == IsSend(e) /\ ~IsRequestTooLarge(e)
\* The ids of the replies sent, those to an oversize breach left out.
SentIds(ev) ==
    LET replies == SelectSeq(ev, IsLineReply)
    IN  [i \in 1..Len(replies) |-> PayloadValue(replies[i]).o["id"]]
IsPrefix(s, t) == Len(s) <= Len(t) /\ s = SubSeq(t, 1, Len(s))
\* The method of the request of OrderContents that has the id.
MethodOfId(id) == IF id = JNum(1) THEN "ping" ELSE "nosuch"
IsRequestOf(e, id) == e.e = "on_request" /\ e.method = cstr(MethodOfId(id))
IsReplyTo(e, id) == IsLineReply(e) /\ PayloadValue(e).o["id"] = id

FreesOf(f, r) ==
    CASE f.what = "result" -> IF f.v = r THEN 1 ELSE 0
      [] f.what = "response" ->
            IF f.v.t = "obj" /\ HasKey(f.v, "result") /\ f.v.o["result"] = r THEN 1
            ELSE IF f.v.t = "arr"
            THEN Cardinality({i \in 1..Len(f.v.a) :
                                 HasKey(f.v.a[i], "result") /\ f.v.a[i].o["result"] = r})
            ELSE 0
      [] f.what = "response_array" ->
            Cardinality({i \in 1..Len(f.v.a) :
                            HasKey(f.v.a[i], "result") /\ f.v.a[i].o["result"] = r})
      [] OTHER -> 0
RECURSIVE FreeCount(_, _)
FreeCount(frees, r) ==
    IF frees = <<>> THEN 0 ELSE FreesOf(Head(frees), r) + FreeCount(Tail(frees), r)
\* What the handler left in descriptor.result at an on_request invocation.
ResultLeft(e) == on_request(e.method, e.params).result

\* C13: a value that on_request leaves in descriptor.result is freed exactly
\* once by the time feed is done with the line: the handler returned false,
\* set an error code, or succeeded, the reply was built or an allocation
\* failed on the way, it was sent or not, alone or in a batch.
C13_ResultFreedOnce ==
    last.op = "feed_line_fault" =>
        \A i \in 1..Len(last.ev) :
            (last.ev[i].e = "on_request" /\ ResultLeft(last.ev[i]) # nullptr) =>
                FreeCount(freed, ResultLeft(last.ev[i])) = 1

\* The second request of a batch succeeded, and appending its reply to
\* the response array failed: its result went with the reply.
C13_Witness ==
    /\ last.op = "feed_line_fault"
    /\ last.arg[2] = [at |-> "append", elem |-> 2]
    /\ Count(last.ev, "on_request") = 2
    /\ ResultLeft(last.ev[2]) = JNum(3)
    /\ FreeCount(freed, JNum(3)) = 1
    /\ FreeCount(freed, JStr("pong")) = 1

\* A handler that returned false had left a result, which was freed.
C13_WitnessNotHandled ==
    /\ last.op = "feed_line_fault"
    /\ Count(last.ev, "on_request") = 1
    /\ last.ev[1].method = cstr("leak")
    /\ freed[1] = Free("result", JStr("unused"))


\* C14: jsonrpc_conn_send_result frees a result that is not nullptr exactly
\* once before it returns, whatever it returns: the connection is nullptr,
\* building the reply fails, sending it fails, or it is sent.
C14_SendResultOwnsResult ==
    (last.op = "send_result_fault" /\ last.arg[3] # nullptr) =>
        FreeCount(freed, last.arg[3]) = 1

\* The reply was built and could not be sent: the call returned false and
\* the result was freed with the reply.
C14_Witness ==
    /\ last.op = "send_result_fault"
    /\ last.arg[1] = FALSE
    /\ last.arg[3] = JStr("pong")
    /\ last.arg[4] = "payload"
    /\ transport.send_raw
    /\ last.exit = "false"
    /\ freed = <<Free("response", jsonrpc_build_result(last.arg[2], JStr("pong")))>>


\* C15: the system free is given only blocks that calloc returned and whose
\* header holds the tag and origin heap; jsonrpc_arena_free leaves a block
\* of the arena, and a pointer whose header holds another tag, untouched.
C15_NoArenaBlockToSystemFree ==
    /\ \A i \in 1..Len(mem.sys_free) :
          /\ mem.sys_free[i] \in 1..Len(mem.blocks)
          /\ mem.blocks[mem.sys_free[i]].real = "heap"
    /\ \A ptr \in {ForeignPointer} \cup {i \in 1..Len(mem.blocks) : mem.blocks[i].live} :
          (HeaderOf(mem, ptr).real # "heap") => jsonrpc_arena_free(mem, ptr) = mem
    /\ \A i \in 1..Len(mem.blocks) :
          mem.blocks[i].real = "arena" <=> mem.blocks[i].origin = JSONRPC_ALLOC_ORIGIN_ARENA

\* With the arena bound, a block came from the arena and one, too large for
\* what was left, from the heap; the heap block went to the system free,
\* the arena block did not.
C15_Witness ==
    /\ mem.g_current_arena
    /\ Len(mem.blocks) = 2
    /\ mem.blocks[1].real = "arena" /\ mem.blocks[1].live
    /\ mem.blocks[2].real = "heap" /\ ~mem.blocks[2].live
    /\ mem.sys_free = <<2>>


\* The bytes with every "\r\n" made '\n'.
RECURSIVE Lf(_)
Lf(s) ==
    IF s = <<>> THEN <<>>
    ELSE IF Len(s) >= 2 /\ s[1] = CR /\ s[2] = NL THEN <<NL>> \o Lf(SubSeq(s, 3, Len(s)))
    ELSE <<Head(s)>> \o Lf(Tail(s))

EmptyLineFirst(s) ==
    IF Len(s) >= 1 /\ s[1] = NL THEN 1
    ELSE IF Len(s) >= 2 /\ s[1] = CR /\ s[2] = NL THEN 2
    ELSE 0

\* C17: an empty line, "\n" or "\r\n", is taken out of the buffer with no
\* handler invocation, no write and no close, and the lines after it are
\* processed as they are without it.
C17_EmptyLineSkipped ==
    [][(last'.op \in {"feed", "feed_crlf"} /\ inbound.data = <<>>
          /\ EmptyLineFirst(last'.arg) > 0) =>
          LET n == EmptyLineFirst(last'.arg)
              rest == SubSeq(last'.arg, n + 1, Len(last'.arg))
              after == jsonrpc_conn_feed(FALSE, transport, callbacks, parson_strict,
                                         EmptyBuffer, rest)
          IN  /\ last'.ev = after.ev
              /\ inbound'.data = after.inbound.data
              /\ rest = <<>> => /\ last'.ev = <<>>
                                /\ last'.exit = "drained"
                                /\ inbound'.data = <<>>
              /\ (rest = <<Doc(ReqPing), NL>> /\ callbacks.on_request) =>
                     Count(last'.ev, "on_request") = 1]_vars

\* An empty line and a request came in one feed: the request was handled
\* and answered, and nothing else happened.
C17_Witness ==
    /\ last.op = "feed"
    /\ last.arg = <<NL, Doc(ReqPing), NL>>
    /\ callbacks.on_request
    /\ transport.send_raw
    /\ Count(last.ev, "on_request") = 1
    /\ SentIds(last.ev) = <<JNum(1)>>
    /\ Len(last.ev) = 2
    /\ inbound.data = <<>>


\* The code of the error object that answers a line of ErrorContents.
ErrorCodeOf(content) ==
    CASE content = <<XX>> -> JSONRPC_ERR_PARSE
      [] content = <<Doc(JNum(7))>> -> JSONRPC_ERR_INVALID_REQUEST
      [] content = <<Doc(ReqNoSuch)>> -> JSONRPC_ERR_METHOD_NOT_FOUND
      [] content = <<Doc(ReqBadParams)>> -> JSONRPC_ERR_INVALID_PARAMS
      [] content = <<Doc(ReqFail)>> ->
            IF callbacks.on_request THEN 42 ELSE JSONRPC_ERR_METHOD_NOT_FOUND
IsErrorReply(e, code) ==
    /\ IsSend(e)
    /\ HasKey(PayloadValue(e), "error")
    /\ PayloadValue(e).o["error"].o["code"] = JNum(code)
\* The reply to the request ReqAfter: its result when a request handler is
\* registered, Method not found when none is.
IsReplyAfter(e) ==
    /\ IsSend(e)
    /\ PayloadValue(e).o["id"] = JNum(9)
    /\ IF callbacks.on_request THEN HasKey(PayloadValue(e), "result")
       ELSE IsErrorReply(e, JSONRPC_ERR_METHOD_NOT_FOUND)
IsRequestAfter(e) == e.e = "on_request" /\ e.method = cstr("ping")

\* C18: on a transport that sends, a line answered by Parse error, Invalid
\* Request, Method not found, Invalid params or a handler's own error code
\* gets that reply and no transport.close, every line after it in the feed
\* is answered in turn, the request after it reaches its handler, and the
\* buffer is left empty for the next feed, of which the same holds.
C18_ProtocolErrorKeepsConnection ==
    [][(last'.op = "feed_error" /\ transport.send_raw) =>
          LET lines == CompleteLines(last'.arg)
              sent == Sent(last'.ev)
          IN  /\ inbound.data = <<>>
              /\ \A i \in 1..Len(last'.ev) : last'.ev[i] # EvClose
              /\ last'.exit = "drained"
              /\ inbound'.data = <<>>
              /\ Len(sent) = Len(lines)
              /\ \A k \in 1..Len(lines) :
                    IF lines[k] \in ErrorContents
                    THEN IsErrorReply(sent[k], ErrorCodeOf(lines[k]))
                    ELSE IsReplyAfter(sent[k])
              /\ callbacks.on_request =>
                    Cardinality({i \in 1..Len(last'.ev) : IsRequestAfter(last'.ev[i])}) =
                    Cardinality({k \in 1..Len(lines) : lines[k] = <<Doc(ReqAfter)>>})]_vars

\* After a feed that held a line that is no JSON text, a second feed held
\* a failing request and a request: the handler's error and the result
\* were sent, and transport.close, which the transport has, was never
\* called.
C18_Witness ==
    /\ nops = 2
    /\ last.op = "feed_error"
    /\ hist_input = <<XX, NL, Doc(ReqFail), NL, Doc(ReqAfter), NL>>
    /\ last.arg = <<Doc(ReqFail), NL, Doc(ReqAfter), NL>>
    /\ transport.send_raw
    /\ transport.close
    /\ callbacks.on_request
    /\ Len(Sent(hist_events)) = 3
    /\ IsErrorReply(Sent(hist_events)[1], JSONRPC_ERR_PARSE)
    /\ IsErrorReply(Sent(hist_events)[2], 42)
    /\ HasKey(PayloadValue(Sent(hist_events)[3]), "result")
    /\ \A i \in 1..Len(hist_events) : hist_events[i] # EvClose


\* C19: when the reply to a line cannot be sent and the transport has
\* close, the feed calls transport.close once, as its last step, and
\* returns: the lines behind that line stay in the buffer, no handler of
\* theirs is invoked and nothing is written.
C19_SendFailureStopsFeed ==
    [][(last'.op = "feed_error" /\ ~transport.send_raw /\ transport.close
          /\ Len(inbound.data) + Len(last'.arg) <= MAX_BUFFER_BYTES) =>
          LET buf == inbound.data \o last'.arg
              first == CompleteLines(buf)[1]
              ev == last'.ev
          IN  /\ last'.exit = "send_failed"
              /\ ev # <<>> /\ ev[Len(ev)] = EvClose
              /\ Count(ev, "close") = 1
              /\ Count(ev, "send_raw") = 0
              /\ Len(ev) <= 2
              /\ Len(ev) = 2 =>
                    /\ callbacks.on_request
                    /\ first \in {<<Doc(ReqNoSuch)>>, <<Doc(ReqFail)>>, <<Doc(ReqAfter)>>}
                    /\ ev[1].e = "on_request"
                    /\ ev[1].method = cstr(first[1].v.o["method"].s)
              /\ inbound'.data = SubSeq(buf, Len(first) + 2, Len(buf))]_vars

\* A failing request and a request came in one feed on a transport that
\* has close and no send_raw: the first handler ran, close was called, and
\* the second request is still in the buffer.
C19_Witness ==
    /\ nops = 1
    /\ last.op = "feed_error"
    /\ last.arg = <<Doc(ReqFail), NL, Doc(ReqAfter), NL>>
    /\ ~transport.send_raw
    /\ transport.close
    /\ callbacks.on_request
    /\ last.exit = "send_failed"
    /\ Len(last.ev) = 2
    /\ last.ev[1].e = "on_request"
    /\ last.ev[1].method = cstr("fail")
    /\ last.ev[2] = EvClose
    /\ inbound.data = <<Doc(ReqAfter), NL>>


\* What the last jsonrpc_conn_send_result or jsonrpc_conn_send_error call
\* of SpecFault did, the transmission by the transport included.
LastSend ==
    IF last.op = "send_result_fault"
    THEN jsonrpc_conn_send_result_mem(last.arg[1], transport, last.arg[2],
                                      last.arg[3], last.arg[4])
    ELSE jsonrpc_conn_send_error_mem(transport, last.arg[1], last.arg[2].n,
                                     last.arg[3], last.arg[4])

\* C20: jsonrpc_conn_send_result and jsonrpc_conn_send_error return true
\* exactly when no allocation failed and the transport transmitted the
\* bytes; they return false when the transport did not transmit them.
C20_SendSuccessIffTransmitted ==
    last.op \in {"send_result_fault", "send_error_fault"} =>
        /\ (last.exit = "true") = (LastSend.sent)
        /\ (last.exit = "true") <=> LastSend.transmitted


\* The bytes of one write: one JSON text, then '\n' as the last byte, and
\* neither '\r' nor '\n' before it.
IsOneLinePayload(data) ==
    /\ Len(data) = 2
    /\ data[1].b = "json"
    /\ data[Len(data)] = NL
    /\ \A i \in 1..(Len(data) - 1) : data[i] # NL /\ data[i] # CR

\* C21: a line makes the engine call transport.send_raw at most once (a
\* batch is answered by one write that carries the whole response array),
\* and every write, of a feed or of an out-of-band reply, is one
\* serialized JSON value followed by exactly one '\n', its last byte, with
\* no '\r' before it and no other '\n'.
C21_OneWritePerLine ==
    /\ \A i \in 1..Len(Sent(last.ev)) : IsOneLinePayload(Sent(last.ev)[i].data)
    /\ last.op = "feed_line" =>
          /\ Len(Sent(last.ev)) <= 1
          /\ (LineValue.t = "arr" /\ Len(LineValue.a) > 0 /\ Sent(last.ev) # <<>>) =>
                /\ PayloadValue(Sent(last.ev)[1]).t = "arr"
                /\ Len(PayloadValue(Sent(last.ev)[1]).a) <= Len(LineValue.a)

\* A batch of two requests, ended by "\r\n", was answered by one write
\* that carries an array of two responses.
C21_Witness ==
    /\ last.op = "feed_line"
    /\ last.arg[2] = CR
    /\ LineValue = JArr(<<ReqPing, ReqNoSuch>>)
    /\ Len(Sent(last.ev)) = 1
    /\ Sent(last.ev)[1].data[2] = NL
    /\ Len(PayloadValue(Sent(last.ev)[1]).a) = 2


\* The line {"jsonrpc":"2.0","id":1,"method":"echo","params":v} with v an
\* array or an object.
IsEchoRequest(v) ==
    /\ v.t = "obj"
    /\ DOMAIN v.o = {"jsonrpc", "id", "method", "params"}
    /\ v.o["jsonrpc"] = JStr("2.0")
    /\ v.o["id"] = JNum(1)
    /\ v.o["method"] = JStr("echo")
    /\ v.o["params"].t \in {"arr", "obj"}
EchoResponse(v) ==
    JObj([k \in {"jsonrpc", "id", "result"} |->
             CASE k = "jsonrpc" -> JStr("2.0")
               [] k = "id" -> JNum(1)
               [] k = "result" -> v])

IsBadEnvelope(v) ==
    \/ v.t # "obj"
    \/ ~HasKey(v, "jsonrpc") \/ v.o["jsonrpc"] # JStr("2.0")
    \/ ~HasKey(v, "method") \/ v.o["method"].t # "str"
    \/ HasKey(v, "id") /\ v.o["id"].t \notin {"str", "num", "null"}
InvalidRequestObject ==
    JObj([k \in {"jsonrpc", "id", "error"} |->
             CASE k = "jsonrpc" -> JStr("2.0")
               [] k = "id" -> JNull
               [] k = "error" ->
                     JObj([m \in {"code", "message"} |->
                              IF m = "code" THEN JNum(JSONRPC_ERR_INVALID_REQUEST)
                              ELSE JStr("Invalid Request")])])
CountIn(a, v) == Cardinality({i \in 1..Len(a) : a[i] = v})
CountBad(a) == Cardinality({i \in 1..Len(a) : IsBadEnvelope(a[i])})

\* C23: a line whose value is neither object nor array, an empty array, an
\* object that is no envelope (jsonrpc, method or id rejected, whatever its
\* id and params are) gets Invalid Request (-32600) with id null and no
\* handler invocation; in a batch each such element puts one such object
\* into the response array.
C23_InvalidRequest ==
    last.op = "feed_line" =>
        /\ (LineValue.t # "arr" /\ IsBadEnvelope(LineValue)) \/ LineValue = JArr(<<>>) =>
              /\ SelectSeq(last.ev, IsHandler) = <<>>
              /\ transport.send_raw =>
                    last.ev = <<EvSend(<<Doc(InvalidRequestObject), NL>>)>>
        /\ (LineValue.t = "arr" /\ CountBad(LineValue.a) > 0 /\ transport.send_raw) =>
              /\ Len(Sent(last.ev)) = 1
              /\ PayloadValue(Sent(last.ev)[1]).t = "arr"
              /\ CountIn(PayloadValue(Sent(last.ev)[1]).a, InvalidRequestObject) =
                    CountBad(LineValue.a)
        /\ (LineValue.t = "arr" /\ CountBad(LineValue.a) = Len(LineValue.a)) =>
              SelectSeq(last.ev, IsHandler) = <<>>

\* An envelope with a valid version and method, an id that is a boolean and
\* params that are a string was answered Invalid Request with id null.
C23_Witness ==
    /\ last.op = "feed_line"
    /\ callbacks.on_request
    /\ LineValue = Envelope(JStr("2.0"), JStr("ping"), JBool(TRUE), JStr("bad"))
    /\ last.ev = <<EvSend(<<Doc(InvalidRequestObject), NL>>)>>

\* An envelope with version "1.0" and the valid id "abc" was answered
\* Invalid Request with id null.
C23_WitnessValidId ==
    /\ last.op = "feed_line"
    /\ LineValue = Envelope(JStr("1.0"), JStr("ping"), JStr("abc"), ABSENT)
    /\ last.ev = <<EvSend(<<Doc(InvalidRequestObject), NL>>)>>


\* The error object for an id, a code and a message.
ErrorObject(id, code, message) ==
    JObj([k \in {"jsonrpc", "id", "error"} |->
             CASE k = "jsonrpc" -> JStr("2.0")
               [] k = "id" -> id
               [] k = "error" ->
                     JObj([m \in {"code", "message"} |->
                              IF m = "code" THEN JNum(code) ELSE JStr(message)])])
\* An envelope whose id, if any, is acceptable and whose params member is
\* present and is neither an array nor an object.
HasBadParams(v) ==
    /\ IsEnvelope(v)
    /\ HasKey(v, "id") => HasRequestId(v)
    /\ HasKey(v, "params")
    /\ v.o["params"].t \notin {"arr", "obj"}

\* C24: an envelope whose params is present and neither array nor object
\* reaches no handler; with an id it gets Invalid params (-32602) carrying
\* that id, without an id it gets nothing.
C24_InvalidParams ==
    (last.op = "feed_line" /\ HasBadParams(LineValue)) =>
        IF HasKey(LineValue, "id")
        THEN /\ SelectSeq(last.ev, IsHandler) = <<>>
             /\ transport.send_raw =>
                   last.ev = <<EvSend(<<Doc(ErrorObject(LineValue.o["id"],
                                                        JSONRPC_ERR_INVALID_PARAMS,
                                                        "Invalid params")), NL>>)>>
        ELSE last.ev = <<>>

\* A request with the id "abc" and params null was answered Invalid params
\* with the id "abc", with on_request registered and not invoked.
C24_Witness ==
    /\ last.op = "feed_line"
    /\ callbacks.on_request
    /\ LineValue = Envelope(JStr("2.0"), JStr("echo"), JStr("abc"), JNull)
    /\ transport.send_raw
    /\ Len(last.ev) = 1
    /\ PayloadValue(last.ev[1]).o["id"] = JStr("abc")
    /\ PayloadValue(last.ev[1]).o["error"].o["code"] = JNum(JSONRPC_ERR_INVALID_PARAMS)

\* A notification with string params was dropped, with on_notification
\* registered.
C24_WitnessDropped ==
    /\ last.op = "feed_line"
    /\ callbacks.on_notification
    /\ transport.send_raw
    /\ LineValue = Envelope(JStr("2.0"), JStr("ping"), ABSENT, JStr("bad"))
    /\ last.ev = <<>>


ResultObject(id, result) ==
    JObj([k \in {"jsonrpc", "id", "result"} |->
             CASE k = "jsonrpc" -> JStr("2.0")
               [] k = "id" -> id
               [] k = "result" -> result])
\* What the registered handler leaves in the descriptor for the request.
HandlerOutcome(v) ==
    on_request(cstr(v.o["method"].s),
               IF HasKey(v, "params") THEN v.o["params"] ELSE nullptr)
\* The reply the handler outcome asks for.
ReplyForOutcome(id, registered, d) ==
    IF ~registered \/ ~d.handled
    THEN ErrorObject(id, JSONRPC_ERR_METHOD_NOT_FOUND, "Method not found")
    ELSE IF d.error_code # 0
    THEN ErrorObject(id, d.error_code,
                     IF d.error_message # nullptr THEN d.error_message.s
                     ELSE jsonrpc_default_message(d.error_code))
    ELSE IF d.result = nullptr
    THEN ErrorObject(id, JSONRPC_ERR_INTERNAL, "Handler returned no result")
    ELSE ResultObject(id, d.result)

\* C25: the one reply to a valid request carries the request id and is:
\* Method not found when on_request is not registered or returns false;
\* else the error with the descriptor's non-zero code and its message (the
\* default message of the code when it has none); else Internal error
\* "Handler returned no result" when the result is absent; else the result.
C25_ReplyFromHandlerOutcome ==
    (last.op = "feed_line" /\ transport.send_raw /\ IsValidRequest(LineValue)) =>
        /\ Sent(last.ev) =
              <<EvSend(<<Doc(ReplyForOutcome(LineValue.o["id"], callbacks.on_request,
                                             HandlerOutcome(LineValue))), NL>>)>>
        /\ Count(last.ev, "on_request") = IF callbacks.on_request THEN 1 ELSE 0

\* The handler left both a result and the code 7 without a message: the
\* reply is the error 7 "Server error" with the request id.
C25_Witness ==
    /\ last.op = "feed_line"
    /\ transport.send_raw
    /\ callbacks.on_request
    /\ LineValue = Envelope(JStr("2.0"), JStr("both"), JStr("abc"), ABSENT)
    /\ Sent(last.ev) = <<EvSend(<<Doc(ErrorObject(JStr("abc"), 7, "Server error")), NL>>)>>

\* The handler returned true with neither result nor code.
C25_WitnessNoResult ==
    /\ last.op = "feed_line"
    /\ transport.send_raw
    /\ callbacks.on_request
    /\ LineValue = Envelope(JStr("2.0"), JStr("nores"), JNum(1), ABSENT)
    /\ Sent(last.ev) =
          <<EvSend(<<Doc(ErrorObject(JNum(1), JSONRPC_ERR_INTERNAL,
                                     "Handler returned no result")), NL>>)>>


\* C26: an envelope whose id is present and null is a request: it never
\* reaches on_notification, it reaches on_request when that is registered,
\* and it gets exactly one response, an object with id null.  A request
\* with any other id likewise never reaches on_notification.
C26_NullIdIsRequest ==
    (last.op = "feed_line" /\ IsValidRequest(LineValue)) =>
        /\ Count(last.ev, "on_notification") = 0
        /\ Count(last.ev, "on_request") = IF callbacks.on_request THEN 1 ELSE 0
        /\ (transport.send_raw /\ LineValue.o["id"] = JNull) =>
              /\ Len(Sent(last.ev)) = 1
              /\ PayloadValue(Sent(last.ev)[1]).t = "obj"
              /\ HasKey(PayloadValue(Sent(last.ev)[1]), "id")
              /\ PayloadValue(Sent(last.ev)[1]).o["id"] = JNull

\* A ping with "id": null, with both handlers registered: on_request ran
\* and the result was sent with id null.
C26_Witness ==
    /\ last.op = "feed_line"
    /\ transport.send_raw
    /\ callbacks.on_request
    /\ callbacks.on_notification
    /\ LineValue = Envelope(JStr("2.0"), JStr("ping"), JNull, ABSENT)
    /\ last.ev = <<EvRequest(cstr("ping"), nullptr),
                   EvSend(<<Doc(ResultObject(JNull, JStr("pong"))), NL>>)>>


\* The replies and the callbacks of the elements of a batch, each element
\* taken alone through jsonrpc_process_object, in array order.
RECURSIVE ElementReplies(_)
ElementReplies(a) ==
    IF a = <<>> THEN <<>>
    ELSE LET r == jsonrpc_process_object(callbacks, Head(a))
         IN  (IF r.resp = nullptr THEN <<>> ELSE <<r.resp>>) \o ElementReplies(Tail(a))
RECURSIVE ElementEvents(_)
ElementEvents(a) ==
    IF a = <<>> THEN <<>>
    ELSE jsonrpc_process_object(callbacks, Head(a)).ev \o ElementEvents(Tail(a))

\* C27: a non-empty batch invokes the callbacks its elements invoke when
\* each is taken alone, in array order, and is answered by one array of the
\* replies its elements get alone, in array order, even when that is one
\* reply; an element that is no envelope contributes Invalid Request with
\* id null at its place; a batch with no reply gets nothing.
C27_BatchElementsIndependent ==
    (last.op = "feed_line" /\ LineValue.t = "arr" /\ Len(LineValue.a) > 0) =>
        /\ SelectSeq(last.ev, IsHandler) = ElementEvents(LineValue.a)
        /\ transport.send_raw =>
              /\ Sent(last.ev) =
                    IF ElementReplies(LineValue.a) = <<>> THEN <<>>
                    ELSE <<EvSend(<<Doc(JArr(ElementReplies(LineValue.a))), NL>>)>>
              /\ \A i \in 1..Len(LineValue.a) :
                    (IsBadEnvelope(LineValue.a[i])
                        /\ \A j \in 1..(i - 1) : IsBadEnvelope(LineValue.a[j])) =>
                        PayloadValue(Sent(last.ev)[1]).a[i] = InvalidRequestObject

\* A batch of a number and a ping: the array holds Invalid Request with id
\* null and then the result, and on_request ran for the ping.
C27_Witness ==
    /\ last.op = "feed_line"
    /\ transport.send_raw
    /\ callbacks.on_request
    /\ LineValue = JArr(<<JNum(7), ReqPing>>)
    /\ last.ev = <<EvRequest(cstr("ping"), nullptr),
                   EvSend(<<Doc(JArr(<<InvalidRequestObject,
                                       ResultObject(JNum(1), JStr("pong"))>>)), NL>>)>>

\* A batch of one request was answered by an array of one object.
C27_WitnessSingle ==
    /\ last.op = "feed_line"
    /\ transport.send_raw
    /\ callbacks.on_request
    /\ LineValue = JArr(<<ReqPing>>)
    /\ Sent(last.ev) =
          <<EvSend(<<Doc(JArr(<<ResultObject(JNum(1), JStr("pong"))>>)), NL>>)>>

\* The events a fatal breach ends a feed with.
BreachLen == (IF transport.send_raw THEN 1 ELSE 0) + (IF transport.close THEN 1 ELSE 0)
BreachTail(ev) == SubSeq(ev, Len(ev) + 1 - BreachLen, Len(ev))
BreachHead(ev) == SubSeq(ev, 1, Len(ev) - BreachLen)

\* C28: a feed that ends in a fatal breach, an append the buffer refuses or
\* a line longer than MAX_MESSAGE_BYTES, ends with one "Request too large"
\* reply with id null when the transport can send, then one transport.close
\* when the transport provides it, with or without the reply. The feed has
\* no other such reply and no other close. When the append is refused these
\* are the only events and the buffer is unchanged; when a line is too long
\* the only lines dispatched are the ones before it, and it and every line
\* after it are still in the buffer.
C28_FatalBreach ==
    [][(/\ nops' = nops + 1
        /\ last'.op \in {"feed", "feed_crlf"}
        /\ last'.exit \in {"too_large", "append_failed"}) =>
        LET ev == last'.ev
            lines == CompleteLines(inbound.data \o last'.arg)
            left == CompleteLines(inbound'.data)
        IN  /\ Len(ev) >= BreachLen
            /\ OversizeBreach(BreachTail(ev))
            /\ \A i \in 1..Len(BreachHead(ev)) :
                   /\ ev[i] # EvClose
                   /\ ~IsRequestTooLarge(ev[i])
            /\ last'.exit = "append_failed" =>
                   /\ BreachHead(ev) = <<>>
                   /\ inbound' = inbound
            /\ last'.exit = "too_large" =>
                   /\ Len(SelectSeq(ev, IsHandler)) <= Len(BeforeOversize(lines))
                   /\ Len(BreachHead(ev)) <= 2 * Len(BeforeOversize(lines))
                   /\ left # <<>>
                   /\ Len(Head(left)) > MAX_MESSAGE_BYTES
                   /\ Len(left) = Len(lines) - Len(BeforeOversize(lines))]_vars

\* A request and a line that is too long came in one feed: the request got
\* its reply, then the breach was answered and the transport closed.
C28_Witness ==
    /\ last.op = "feed"
    /\ last.exit = "too_large"
    /\ transport.send_raw
    /\ transport.close
    /\ callbacks.on_request
    /\ Len(last.ev) = 4
    /\ last.ev[1].e = "on_request"
    /\ last.ev[2] = EvSend(<<Doc(ResultObject(JNum(1), JStr("pong"))), NL>>)
    /\ IsRequestTooLarge(last.ev[3])
    /\ last.ev[4] = EvClose

\* An append was refused on a transport that cannot send: the transport
\* was closed all the same.
C28_WitnessUnsent ==
    /\ last.exit = "append_failed"
    /\ ~transport.send_raw
    /\ transport.close
    /\ last.ev = <<EvClose>>

\* INITIAL_BUFFER_CAP doubled zero or more times.
IsDoubledInitialCap(c) ==
    \E k \in 0..MAX_BUFFER_BYTES : c = INITIAL_BUFFER_CAP * (2 ^ k)

\* C29: in every state the inbound buffer has len <= cap <= MAX_BUFFER_BYTES
\* and a cap that is 0 or INITIAL_BUFFER_CAP doubled zero or more times; a
\* feed that the buffer takes in leaves cap alone when the bytes fit, and
\* otherwise grows it to the first of INITIAL_BUFFER_CAP (from an empty
\* buffer) or cap, doubled, that holds len plus the new bytes.
C29_BufferCapShape ==
    /\ [](/\ Len(inbound.data) <= inbound.cap
           /\ inbound.cap <= MAX_BUFFER_BYTES
           /\ (inbound.cap = 0 \/ IsDoubledInitialCap(inbound.cap)))
    /\ [][(FeedStep /\ last'.exit \notin {"ignored", "append_failed"}) =>
            LET required == Len(inbound.data) + Len(last'.arg)
            IN  /\ inbound'.cap >= required
                /\ required <= inbound.cap => inbound'.cap = inbound.cap
                /\ required > inbound.cap =>
                       /\ inbound'.cap > inbound.cap
                       /\ \/ inbound'.cap = INITIAL_BUFFER_CAP /\ inbound.cap = 0
                          \/ inbound'.cap = inbound.cap * 2
                          \/ inbound'.cap \div 2 < required]_vars

\* A buffer that grew from nothing to MAX_BUFFER_BYTES in one feed and is
\* full.
C29_Witness ==
    /\ last.op = "feed"
    /\ last.arg = Pad(MAX_BUFFER_BYTES)
    /\ inbound.cap = MAX_BUFFER_BYTES
    /\ Len(inbound.data) = inbound.cap

\* A buffer that doubled once, from INITIAL_BUFFER_CAP, for one more byte.
C29_WitnessDoubled ==
    /\ last.op = "feed"
    /\ Len(last.arg) = 1
    /\ Len(inbound.data) = INITIAL_BUFFER_CAP + 1
    /\ inbound.cap = INITIAL_BUFFER_CAP * 2

\* The step is a rpc_buffer_append call.
AppendStep == nops' = nops + 1 /\ last'.op = "append"

\* What rpc_buffer_append does (C30, with the allocation): it fails exactly
\* when len plus the number of new bytes is over MAX_BUFFER_BYTES or the
\* buffer has to grow and calloc returns nullptr; a failed append leaves
\* contents, len and cap unchanged; a successful one makes the contents the
\* old contents followed by the new bytes in order.
C30_AppendAllOrNothing ==
    [][AppendStep =>
        /\ last'.exit = "failed" <=>
               \/ Len(inbound.data) + Len(last'.arg) > MAX_BUFFER_BYTES
               \/ last'.ev = <<EvCalloc(FALSE)>>
        /\ last'.exit = "failed" => inbound' = inbound
        /\ last'.exit = "ok" =>
               /\ inbound'.data = inbound.data \o last'.arg
               /\ inbound'.cap >= Len(inbound'.data)]_vars

\* Bytes were appended behind bytes that were there, in order.
C30_Witness ==
    /\ last.op = "append"
    /\ last.exit = "ok"
    /\ last.arg = <<XX, SP, NL>>
    /\ inbound.data = <<NL, XX, XX, SP, NL>>

\* An append was refused for its size.
C30_WitnessRefused ==
    /\ last.op = "append"
    /\ last.exit = "failed"
    /\ Len(inbound.data) + Len(last.arg) = MAX_BUFFER_BYTES + 1
    /\ last.ev = <<>>

\* C30: rpc_buffer_append is all-or-nothing: it fails exactly when len plus
\* the number of new bytes is over MAX_BUFFER_BYTES, a failed append leaves
\* contents, len and cap unchanged, and a successful append makes the
\* contents the old contents followed by the new bytes in order.
C30_FailsOnlyOverCap ==
    [][AppendStep =>
        /\ last'.exit = "failed" <=>
               Len(inbound.data) + Len(last'.arg) > MAX_BUFFER_BYTES
        /\ last'.exit = "failed" => inbound' = inbound
        /\ last'.exit = "ok" => inbound'.data = inbound.data \o last'.arg]_vars

\* The step is an arena_alloc or arena_alloc_aligned call.
ArenaAllocStep ==
    nops' = nops + 1 /\ last'.op \in {"arena_alloc", "arena_alloc_aligned"}

\* The bytes an allocation has to skip to reach the alignment.
PaddingFor(arena, alignment) ==
    IF alignment = 0 THEN 0
    ELSE (alignment - ((arena.region + arena.index) % alignment)) % alignment

\* C31: on a created arena 0 <= index <= size holds in every state; every
\* pointer an allocation of n bytes returns is aligned as requested and has
\* region <= p and p + n <= region + size; a request of no bytes, or one
\* whose padding and size pass the end of the region, returns nullptr, and
\* every other request returns a pointer.
C31_ArenaBounds ==
    /\ [](mem.arena.index >= 0 /\ mem.arena.index <= mem.arena.size)
    /\ [][ArenaAllocStep =>
            LET n == last'.arg[1]
                alignment == last'.arg[2]
                p == last'.ev[1].ptr
                fits == mem.arena.index + PaddingFor(mem.arena, alignment) + n
                            <= mem.arena.size
            IN  /\ p # 0 =>
                       /\ alignment # 0 => p % alignment = 0
                       /\ mem.arena.region <= p
                       /\ p + n <= mem.arena.region + mem.arena.size
                       /\ p >= mem.arena.region + mem.arena.index
                       /\ mem'.arena.index = p - mem.arena.region + n
                /\ p # 0 <=> (n > 0 /\ fits)]_vars

\* An allocation aligned to 4 on a region whose next free byte is not:
\* the pointer skipped the padding.
C31_Witness ==
    /\ last.op = "arena_alloc_aligned"
    /\ last.arg = <<2, 4>>
    /\ last.exit = "ok"
    /\ mem.arena.region % 4 = 2
    /\ last.ev[1].ptr = mem.arena.region + 2
    /\ mem.arena.index = 4

\* A request that fits the bytes left but not behind its padding got
\* nullptr.
C31_WitnessNoRoom ==
    /\ last.op = "arena_alloc_aligned"
    /\ last.exit = "nullptr"
    /\ last.arg[1] > 0
    /\ last.arg[1] <= mem.arena.size - mem.arena.index

\* C32: every block arena_alloc or arena_alloc_aligned returns holds n zero
\* bytes when it is returned, after arena_clear on a region that was
\* written to as well.
C32_BlocksAreZero ==
    [][ArenaAllocStep =>
        \A i \in 1..Len(last'.ev[1].bytes) : last'.ev[1].bytes[i] = 0]_vars

\* The bound arena has room for a block of the size and its header.
ArenaHasRoom(m, size) ==
    /\ m.g_current_arena
    /\ m.arena.region # 0
    /\ m.arena.index + PaddingFor(m.arena, ARENA_DEFAULT_ALIGNMENT)
           + size + JSONRPC_ALLOC_HEADER_BYTES <= m.arena.size

C36_WitnessBothFail ==
    /\ last.op = "jsonrpc_arena_malloc"
    /\ last.exit = "nullptr"
    /\ mem.g_current_arena
    /\ last.arg[1] > 0
    /\ last.ev = <<EvCalloc(FALSE)>>

\* The call that returned in the last step.
Returned == last.ev[1]

\* C33: when a jsonrpc_conn_feed, jsonrpc_conn_send_result or
\* jsonrpc_conn_send_error call that user code made outside any callback,
\* with no arena bound, returns, the index of its connection's arena is 0,
\* whatever path the call took.
C33_ArenaResetOnReturn ==
    (last.op = "return" /\ Depth = 0 /\ Returned.entry = 0
        /\ conn_state[Returned.conn] = "open") =>
        mem.arenas[Returned.conn].index = 0

\* A feed returned whose last epoch took a block from the arena: the
\* header of the block is still in the region, and the index is 0.
C33_Witness ==
    /\ last.op = "return"
    /\ Returned.op = "feed"
    /\ Returned.entry = 0
    /\ Returned.scope.changed
    /\ Depth = 0
    /\ conn_state[Returned.conn] = "open"
    /\ mem.arenas[Returned.conn].bytes[1] = 1
    /\ mem.arenas[Returned.conn].index = 0

\* The call that a step enters.
Entered == mem'.frames[Len(mem'.frames)]

\* C34: a call during which no connection was freed returns with the
\* binding it was entered with; a scope begun for the arena that is bound
\* already changes neither the binding nor any arena, and the end of such a
\* scope changes neither as well, so the arena is not cleared.
C34_ScopesNest ==
    /\ []((last.op = "return" /\ ~Returned.freed) =>
              mem.g_current_arena = Returned.entry)
    /\ [][((CallSend \/ Breach \/ ErrorInEpoch \/ BeginEpoch)
            /\ mem.conn_arena[Entered.conn] # 0
            /\ mem.g_current_arena = mem.conn_arena[Entered.conn]) =>
               /\ ~Entered.scope.changed
               /\ mem'.g_current_arena = mem.g_current_arena
               /\ mem'.arenas = mem.arenas]_vars
    /\ [][((EndEpoch \/ ReturnSend) /\ ~Top.scope.changed) =>
               /\ mem'.g_current_arena = mem.g_current_arena
               /\ mem'.arenas = mem.arenas]_vars
    /\ [][ScopeConnFree =>
               \/ mem'.g_current_arena = mem.g_current_arena
               \/ /\ mem'.g_current_arena = 0
                  /\ mem.g_current_arena \in mem'.destroyed \ mem.destroyed]_vars

\* C34 as stated: every public operation, jsonrpc_conn_free and the calls
\* during which it runs included, leaves the binding as it was at entry.
C34_BindingAsAtEntry ==
    /\ [](last.op = "return" => mem.g_current_arena = Returned.entry)
    /\ [][ScopeConnFree => mem'.g_current_arena = mem.g_current_arena]_vars

\* A send on the connection whose epoch is in progress returned: the arena
\* still holds the blocks of the epoch.
C34_Witness ==
    /\ last.op = "return"
    /\ Returned.op = "send"
    /\ ~Returned.scope.changed
    /\ Depth = 1
    /\ Top.op = "feed"
    /\ Top.conn = Returned.conn
    /\ Top.pc \in {"epoch", "callback"}
    /\ mem.g_current_arena = Returned.conn
    /\ mem.arenas[Returned.conn].index > 0

\* C35: in every state the binding is nullptr or an arena that was not
\* destroyed.
C35_BindingNeverDangles ==
    mem.g_current_arena = 0 \/ mem.g_current_arena \notin mem.destroyed


\* C37: when start_jsonrpc_server has returned after a shutdown, every
\* client that was accepted had on_uv_client_closed run: its connection,
\* if one was created, was freed exactly once with one on_close, and its
\* context was freed.
C37_ShutdownFreesEveryClient ==
    mem.phase = "returned" =>
        \A c \in Clients :
            mem.client[c].handle # "none" =>
                /\ mem.client[c].ctx = "freed"
                /\ ~mem.client[c].rpc
                /\ mem.client[c].n_free <= 1
                /\ mem.client[c].n_free = mem.client[c].n_close

\* The clients that were closed through transport_close are freed
\* exactly once by the time the server returns.
C37_ClosedByTransportAreFreed ==
    mem.phase = "returned" =>
        \A c \in Clients :
            mem.client[c].close_cb = "on_uv_client_closed" =>
                /\ mem.client[c].ctx = "freed"
                /\ ~mem.client[c].rpc
                /\ mem.client[c].n_free <= 1


\* The envelopes of a line: the elements of a batch, or the value itself.
EnvelopesOf(v) == IF v.t = "arr" THEN v.a ELSE <<v>>

\* The envelope passed every check and its handler is registered.
ReachesHandler(v) ==
    \/ IsValidRequest(v) /\ callbacks.on_request
    \/ IsValidNotification(v) /\ callbacks.on_notification

\* The handler invocations of the last call, in order.
HandlerCalls == SelectSeq(last.ev, IsHandler)

\* C38: the handler invocations of a line are, in order, one for each of
\* its envelopes that passed every check and has its handler registered:
\* on_request if the envelope has an id, on_notification if it has none,
\* with the envelope's method, never nullptr, and with its params, which
\* are nullptr, an array or an object; a line that is empty, oversize or
\* not parsable invokes no handler.
C38_HandlersSeeValidatedInput ==
    /\ last.op = "feed_line" =>
          LET called == SelectSeq(EnvelopesOf(LineValue), ReachesHandler)
          IN  /\ Len(HandlerCalls) = Len(called)
              /\ \A i \in 1..Len(HandlerCalls) :
                    IF i > Len(called) THEN FALSE
                    ELSE
                    /\ HandlerCalls[i].e = (IF HasKey(called[i], "id")
                                            THEN "on_request" ELSE "on_notification")
                    /\ HandlerCalls[i].method # nullptr
                    /\ HandlerCalls[i].method = cstr(called[i].o["method"].s)
                    /\ HandlerCalls[i].params =
                          (IF HasKey(called[i], "params") THEN called[i].o["params"]
                           ELSE nullptr)
                    /\ \/ HandlerCalls[i].params = nullptr
                       \/ HandlerCalls[i].params.t \in {"arr", "obj"}
    /\ last.op = "feed_unparsed" => HandlerCalls = <<>>

\* A batch of a request and an element that is no envelope invoked
\* on_request once, for the request.
C38_Witness ==
    /\ last.op = "feed_line"
    /\ callbacks.on_request
    /\ LineValue = JArr(<<ReqPing, JNum(7)>>)
    /\ Len(HandlerCalls) = 1
    /\ HandlerCalls[1] = EvRequest(cstr("ping"), nullptr)

\* An oversize line with a request at its head was fed with on_request
\* registered, and the engine answered without invoking it.
C38_WitnessOversize ==
    /\ last.op = "feed_unparsed"
    /\ callbacks.on_request
    /\ transport.send_raw
    /\ last.arg = <<Doc(ReqPing)>> \o Pad(MAX_MESSAGE_BYTES) \o <<NL>>
    /\ last.exit = "too_large"
    /\ HandlerCalls = <<>>

\* A notification whose handler is registered reached on_notification with
\* its array params.
C38_WitnessNotification ==
    /\ last.op = "feed_line"
    /\ callbacks.on_notification
    /\ LineValue = Envelope(JStr("2.0"), JStr("echo"), ABSENT, JArr(<<JStr("hello")>>))
    /\ HandlerCalls = <<EvNotification(cstr("echo"), JArr(<<JStr("hello")>>))>>


\* C39: among the events of one jsonrpc_conn_feed call nothing follows a
\* transport.close: no second close, no handler invocation, no send_raw.
C39_NothingAfterClose ==
    last.op \in {"feed", "feed_crlf"} =>
        \A i \in 1..Len(last.ev) :
            last.ev[i] = EvClose =>
                \A j \in (i + 1)..Len(last.ev) :
                    last.ev[j].e \notin {"close", "send_raw", "on_request",
                                         "on_notification"}

\* Two requests were fed in one call to a connection with on_request and
\* a transport that closes and cannot send: the first reached the handler,
\* transport.close followed, and the second is still in the buffer.
C39_Witness ==
    /\ last.op = "feed"
    /\ callbacks.on_request
    /\ transport.close
    /\ ~transport.send_raw
    /\ last.arg = <<Doc(ReqPing), NL, Doc(ReqNoSuch), NL>>
    /\ last.ev = <<EvRequest(cstr("ping"), nullptr), EvClose>>
    /\ inbound.data = <<Doc(ReqNoSuch), NL>>

\* A request and an oversize line were fed in one call: the reply to the
\* request, the error for the oversize line and one transport.close, in
\* that order.
C39_WitnessBreach ==
    /\ last.op = "feed"
    /\ transport.close
    /\ transport.send_raw
    /\ last.arg = <<Doc(ReqPing), NL>> \o Pad(MAX_MESSAGE_BYTES + 1) \o <<NL>>
    /\ Len(last.ev) >= 3
    /\ Count(last.ev, "close") = 1
    /\ last.ev[Len(last.ev)] = EvClose
    /\ IsRequestTooLarge(last.ev[Len(last.ev) - 1])


\* The length of the first line of s, which holds a '\n': the bytes before
\* the '\n', less one '\r' at their end.
FirstLineLen(s) ==
    LET n == CHOOSE i \in 1..Len(s) : s[i] = NL /\ \A j \in 1..(i - 1) : s[j] # NL
    IN  IF n > 1 /\ s[n - 1] = CR THEN n - 2 ELSE n - 1

\* The bytes of s from its first line longer than MAX_MESSAGE_BYTES on; s
\* if it has no such line.
RECURSIVE FromOversize(_)
FromOversize(s) ==
    IF \A i \in 1..Len(s) : s[i] # NL THEN s
    ELSE IF FirstLineLen(s) > MAX_MESSAGE_BYTES THEN s
    ELSE LET n == CHOOSE i \in 1..Len(s) : s[i] = NL /\ \A j \in 1..(i - 1) : s[j] # NL
         IN  FromOversize(SubSeq(s, n + 1, Len(s)))

\* C40: a feed whose append the buffer refuses leaves the buffer as it
\* was, contents, length and capacity; a feed that meets a line longer
\* than MAX_MESSAGE_BYTES leaves in the buffer exactly the bytes from the
\* start of that line on, that line and everything after it, bytes of an
\* incomplete line included.
C40_BreachLeavesBuffer ==
    [][(/\ nops' = nops + 1
        /\ last'.op \in {"feed", "feed_crlf"}
        /\ last'.exit \in {"too_large", "append_failed"}) =>
        /\ last'.exit = "append_failed" =>
               /\ Len(inbound.data) + Len(last'.arg) > MAX_BUFFER_BYTES
               /\ inbound' = inbound
        /\ last'.exit = "too_large" =>
               LET all == inbound.data \o last'.arg
               IN  /\ inbound'.data = FromOversize(all)
                   /\ \E i \in 1..Len(inbound'.data) : inbound'.data[i] = NL
                   /\ FirstLineLen(inbound'.data) > MAX_MESSAGE_BYTES]_vars

\* A request was buffered without its '\n'; a feed of a piece that does
\* not fit was refused and the buffer still holds the request alone.
C40_Witness ==
    /\ last.op = "feed"
    /\ last.exit = "append_failed"
    /\ Len(last.arg) = MAX_BUFFER_BYTES
    /\ inbound.data = <<Doc(ReqPing)>>

\* A request and an oversize line came in one feed: the request was taken
\* out and the oversize line with its '\n' is what the buffer holds.
C40_WitnessOversize ==
    /\ last.op = "feed"
    /\ last.exit = "too_large"
    /\ last.arg = <<Doc(ReqPing), NL>> \o Pad(MAX_MESSAGE_BYTES + 1) \o <<NL>>
    /\ inbound.data = Pad(MAX_MESSAGE_BYTES + 1) \o <<NL>>

=============================================================================
